---- MODULE Spec2Model ----
(***************************************************************************)
(* celerix-store: the concurrent in-memory Engine (MemStore), its          *)
(* write-then-rename persistence (Persistence), the line protocol Router   *)
(* and the retrying remote Client.                                         *)
(***************************************************************************)
EXTENDS Integers, Sequences, FiniteSets, TLC

\* ------------------------------------------------------------------ bounds

\* Engine operations started in one behaviour.
MaxOps == 2
\* Tokens one write(2) call of write_all transfers.
ChunkLen == 2
\* Operations the single caller of the Engine starts in one behaviour.
MaxSeqOps == 3
\* Calls the Client makes in one behaviour.
MaxCalls == 3
\* Calls the Client makes in one behaviour whose transport may fail.
MaxFaultyCalls == 1
\* Connections the Router accepts in one behaviour.
MaxConns == 3
\* Lines the peers of the Router write, and permits the further peers leave free.
MaxLines == 3
MaxIdle == 2
MaxPings == 1

\* ------------------------------------------------------------- identifiers

Personas == {"p1", "p2"}
\* serde_json writes a map in the map's iteration order; the model fixes one.
AppOrder == <<"app1", "app2">>
KeyOrder == <<"k1", "k2">>
\* The apps and keys of one caller alone; the callers that run together
\* share one app and one key.
AllApps == {AppOrder[i] : i \in DOMAIN AppOrder}
AllKeys == {KeyOrder[i] : i \in DOMAIN KeyOrder}
Apps == {"app1"}
Keys == {"k1"}
\* A serde_json::Value is modelled as a JSON string; a string is a sequence
\* of atoms (a run of non-blank characters, or one blank " ").
Values == {<<"v1">>, <<"v2">>}
Threads == {"t1", "t2"}
TaskIds == 1 .. (2 * MaxOps)
\* The for loop of send_and_receive: for i in 0..3.
Attempts == 3
InodeIds == 1 .. (2 * Cardinality(Personas) + 2 * MaxOps)

VARIABLES
    data,       \* MemStore.data: persona -> app -> key -> value
    pending,    \* MemStore.pending_tasks
    th,         \* the callers of the Engine: one record per thread
    tasks,      \* the spawn_blocking closures of persist() still alive
    dir,        \* the data directory: file name -> inode (0: no such file)
    ino,        \* inode -> [live, bytes]
    opsLeft,    \* operations that may still be started
    crashed,    \* the process was killed
    lastSet,    \* history: coordinates -> the value of the latest Write not yet deleted or moved
    nonWrite,   \* history: a Delete or a Move was called
    persistence, \* MemStore.persistence is Some
    cl,         \* the remote Client and the call it is in
    conns,      \* the TCP connections and the Router task of each
    others      \* connections of further peers that hold a permit of the Router

wire == <<cl, conns, others>>

vars == <<data, pending, th, tasks, dir, ino, opsLeft, crashed, lastSet, nonWrite, persistence, cl, conns, others>>

\* ------------------------------------------------------------------- maps

EmptyMap == <<>>

Put(m, k, v) == [x \in (DOMAIN m) \cup {k} |-> IF x = k THEN v ELSE m[x]]

Remove(m, k) == [x \in (DOMAIN m) \ {k} |-> m[x]]

\* ---------------------------------------------------------------- results

NoVal == <<>>

Ok(v) == [kind |-> "Ok", val |-> v]

Err(e) == [kind |-> e, val |-> NoVal]

\* ------------------------------------------------- MemStore, under the lock
\* Each operator below is the body of one critical section of data's RwLock.
\* A section holds no await, so it is one atomic step.

\* One lookup of the key through all levels: every miss is KeyNotFound.
MemGetFlat(d, p, a, k) ==
    IF p \in DOMAIN d /\ a \in DOMAIN d[p] /\ k \in DOMAIN d[p][a]
    THEN Ok(d[p][a][k])
    ELSE Err("KeyNotFound")

MemGet(d, p, a, k) ==
    IF p \notin DOMAIN d THEN Err("PersonaNotFound")
    ELSE IF a \notin DOMAIN d[p] THEN Err("AppNotFound")
    ELSE IF k \notin DOMAIN d[p][a] THEN Err("KeyNotFound")
    ELSE Ok(d[p][a][k])

\* or_insert in place of insert: a key that exists keeps its value.
MemSetKeepOld(d, p, a, k, v) ==
    LET persona == IF p \in DOMAIN d THEN d[p] ELSE EmptyMap
        app == IF a \in DOMAIN persona THEN persona[a] ELSE EmptyMap
    IN  Put(d, p, Put(persona, a, IF k \in DOMAIN app THEN app ELSE Put(app, k, v)))

\* get_mut in place of entry().or_default(): no container is created.
MemSetNoCreate(d, p, a, k, v) ==
    IF p \in DOMAIN d /\ a \in DOMAIN d[p]
    THEN Put(d, p, Put(d[p], a, Put(d[p][a], k, v)))
    ELSE d

MemSet(d, p, a, k, v) ==
    LET persona == IF p \in DOMAIN d THEN d[p] ELSE EmptyMap
        app == IF a \in DOMAIN persona THEN persona[a] ELSE EmptyMap
    IN  Put(d, p, Put(persona, a, Put(app, k, v)))

\* entry().or_default() in place of get_mut: the containers are created.
MemDeleteCreating(d, p, a, k) ==
    LET persona == IF p \in DOMAIN d THEN d[p] ELSE EmptyMap
        app == IF a \in DOMAIN persona THEN persona[a] ELSE EmptyMap
    IN  Put(d, p, Put(persona, a, Remove(app, k)))

\* An app that the removal leaves empty is removed with its last key.
MemDeletePruning(d, p, a, k) ==
    IF p \in DOMAIN d /\ a \in DOMAIN d[p]
    THEN (IF Remove(d[p][a], k) = EmptyMap
          THEN Put(d, p, Remove(d[p], a))
          ELSE Put(d, p, Put(d[p], a, Remove(d[p][a], k))))
    ELSE d

MemDelete(d, p, a, k) ==
    IF p \in DOMAIN d /\ a \in DOMAIN d[p]
    THEN Put(d, p, Put(d[p], a, Remove(d[p][a], k)))
    ELSE d

\* The first block of move_key: remove the key from the source, or fail.
MoveRemoveResult(d, src, a, k) ==
    IF src \notin DOMAIN d THEN Err("PersonaNotFound")
    ELSE IF a \notin DOMAIN d[src] THEN Err("AppNotFound")
    ELSE IF k \notin DOMAIN d[src][a] THEN Err("KeyNotFound")
    ELSE Ok(d[src][a][k])

\* entry().or_default() in place of get_mut: the lookup creates what it misses.
MoveRemoveDataCreating(d, src, a, k) ==
    LET persona == IF src \in DOMAIN d THEN d[src] ELSE EmptyMap
        app == IF a \in DOMAIN persona THEN persona[a] ELSE EmptyMap
    IN  Put(d, src, Put(persona, a, Remove(app, k)))

\* get in place of remove: the source keeps the key.
MoveRemoveDataKeeping(d, src, a, k) == d

MoveRemoveData(d, src, a, k) ==
    IF MoveRemoveResult(d, src, a, k).kind = "Ok"
    THEN Put(d, src, Put(d[src], a, Remove(d[src][a], k)))
    ELSE d

\* The body of get_app_store: the whole app, cloned.
MemGetAppStore(d, p, a) ==
    IF p \notin DOMAIN d THEN Err("PersonaNotFound")
    ELSE IF a \notin DOMAIN d[p] THEN Err("AppNotFound")
    ELSE Ok(d[p][a])

Present(d, p, a, k) == p \in DOMAIN d /\ a \in DOMAIN d[p] /\ k \in DOMAIN d[p][a]

\* The value is returned with any persona of the store.
MemGetGlobalAnyPersona(d, a, k) ==
    LET holders == {p \in DOMAIN d : a \in DOMAIN d[p] /\ k \in DOMAIN d[p][a]}
    IN  IF holders = {} THEN {Err("KeyNotFound")}
        ELSE {[kind |-> "Ok", val |-> d[p][a][k], persona |-> q] : p \in holders, q \in DOMAIN d}

\* MemStore::get_global: the outcomes over the iteration orders of the map.
MemGetGlobal(d, a, k) ==
    LET holders == {p \in DOMAIN d : a \in DOMAIN d[p] /\ k \in DOMAIN d[p][a]}
    IN  IF holders = {} THEN {Err("KeyNotFound")}
        ELSE {[kind |-> "Ok", val |-> d[p][a][k], persona |-> p] : p \in holders}

\* The personas whose app holds no key are left out.
MemDumpAppNonEmpty(d, a) ==
    Ok([p \in {q \in DOMAIN d : a \in DOMAIN d[q] /\ d[q][a] # EmptyMap} |-> d[p][a]])

\* MemStore::dump_app
MemDumpApp(d, a) == Ok([p \in {q \in DOMAIN d : a \in DOMAIN d[q]} |-> d[p][a]])

\* MemStore::get_apps: the names, in no order.
MemGetApps(d, p) == Ok(IF p \in DOMAIN d THEN DOMAIN d[p] ELSE {})

CopyPersonaData(d, p) == IF p \in DOMAIN d THEN {d[p]} ELSE {}

\* ------------------------------------------------------ the persona file
\* A file is a sequence of tokens; the JSON text of a persona is
\*   {  app a1  kv k v ...  app a2 ...  }

Tok(t, name, val) == [t |-> t, name |-> name, val |-> val]

Nul == Tok("nul", "", <<>>)

RECURSIVE SerKeys(_, _)
SerKeys(app, i) ==
    IF i > Len(KeyOrder) THEN <<>>
    ELSE (IF KeyOrder[i] \in DOMAIN app
          THEN <<Tok("kv", KeyOrder[i], app[KeyOrder[i]])>>
          ELSE <<>>) \o SerKeys(app, i + 1)

RECURSIVE SerApps(_, _)
SerApps(persona, i) ==
    IF i > Len(AppOrder) THEN <<>>
    ELSE (IF AppOrder[i] \in DOMAIN persona
          THEN <<Tok("app", AppOrder[i], <<>>)>> \o SerKeys(persona[AppOrder[i]], 1)
          ELSE <<>>) \o SerApps(persona, i + 1)

\* serde_json::to_vec_pretty of one persona's map.
Serialize(persona) == <<Tok("{", "", <<>>)>> \o SerApps(persona, 1) \o <<Tok("}", "", <<>>)>>

\* The members of the object between the braces; cur is the app being filled.
RECURSIVE ParseMembers(_, _, _, _)
ParseMembers(bytes, i, cur, acc) ==
    IF i >= Len(bytes) THEN [ok |-> TRUE, val |-> acc]
    ELSE LET tk == bytes[i] IN
         IF tk.t = "app"
         THEN ParseMembers(bytes, i + 1, tk.name, Put(acc, tk.name, EmptyMap))
         ELSE IF tk.t = "kv" /\ cur # ""
         THEN ParseMembers(bytes, i + 1, cur, Put(acc, cur, Put(acc[cur], tk.name, tk.val)))
         ELSE [ok |-> FALSE, val |-> EmptyMap]

\* serde_json::from_slice into HashMap<String, HashMap<String, Value>>.
Deserialize(bytes) ==
    IF Len(bytes) < 2 \/ bytes[1].t # "{" \/ bytes[Len(bytes)].t # "}"
    THEN [ok |-> FALSE, val |-> EmptyMap]
    ELSE ParseMembers(bytes, 2, "", EmptyMap)

\* --------------------------------------------------------- the file system

FileNames == Personas \X {"json", "tmp"}

JsonPath(p) == <<p, "json">>

\* No staging file: the bytes are written onto <persona>.json itself.
TempPathInPlace(p) == <<p, "json">>

TempPath(p) == <<p, "tmp">>

FreeInode(inodes) == CHOOSE i \in InodeIds : ~inodes[i].live /\ \A j \in InodeIds : j < i => inodes[j].live

\* An inode lives while a name or an open descriptor refers to it. Inode
\* numbers carry no meaning, so after every call the live inodes are
\* renumbered in the order of their first reference: the names in NameOrder,
\* then the descriptors of the tasks by task id.
NameOrder == <<<<"p1", "json">>, <<"p1", "tmp">>, <<"p2", "json">>, <<"p2", "tmp">>>>

RefRank(d, ts, i) ==
    LET byName == {n \in DOMAIN NameOrder : d[NameOrder[n]] = i}
        byTask == {id \in DOMAIN ts : ts[id].fd = i}
    IN  IF byName # {} THEN CHOOSE n \in byName : \A m \in byName : n <= m
        ELSE IF byTask # {} THEN Len(NameOrder) + (CHOOSE id \in byTask : \A m \in byTask : id <= m)
        ELSE 0

Collect(fs, ts) ==
    LET live == {i \in InodeIds : RefRank(fs.dir, ts, i) # 0}
        num(i) == IF i \in live
                  THEN Cardinality({j \in live : RefRank(fs.dir, ts, j) <= RefRank(fs.dir, ts, i)})
                  ELSE 0
        old(n) == CHOOSE i \in live : num(i) = n
    IN  [dir |-> [n \in FileNames |-> num(fs.dir[n])],
         ino |-> [n \in InodeIds |-> IF n <= Cardinality(live)
                                     THEN [live |-> TRUE, bytes |-> fs.ino[old(n)].bytes]
                                     ELSE [live |-> FALSE, bytes |-> <<>>]],
         tasks |-> [id \in DOMAIN ts |-> [ts[id] EXCEPT !.fd = num(ts[id].fd)]]]

\* pwrite of chunk at offset off: a gap left by a truncation reads as NULs.
RECURSIVE Nuls(_)
Nuls(n) == IF n <= 0 THEN <<>> ELSE <<Nul>> \o Nuls(n - 1)

WriteAt(bytes, off, chunk) ==
    LET padded == IF Len(bytes) < off THEN bytes \o Nuls(off - Len(bytes)) ELSE bytes
    IN  SubSeq(padded, 1, off) \o chunk \o SubSeq(padded, off + Len(chunk) + 1, Len(padded))

\* What stands for the content of a file fs::read fails on (a directory
\* of that name, a file the process may not read).
Unreadable == <<Tok("eio", "", <<>>)>>

\* fs::read
FsRead(bytes) == IF bytes = Unreadable THEN [ok |-> FALSE, val |-> <<>>] ELSE [ok |-> TRUE, val |-> bytes]

\* load_all gives up at the first file it cannot read or parse.
LoadAllStrict(d, inodes) ==
    LET there == {p \in Personas : d[JsonPath(p)] # 0}
        good == {p \in there : FsRead(inodes[d[JsonPath(p)]].bytes).ok
                    /\ Deserialize(inodes[d[JsonPath(p)]].bytes).ok}
    IN  IF good # there THEN EmptyMap
        ELSE [p \in good |-> Deserialize(inodes[d[JsonPath(p)]].bytes).val]

\* Persistence::load_all: every <persona>.json that is read and parses;
\* the others are skipped.
LoadAll(d, inodes) ==
    LET good == {p \in Personas : d[JsonPath(p)] # 0
                    /\ FsRead(inodes[d[JsonPath(p)]].bytes).ok
                    /\ Deserialize(FsRead(inodes[d[JsonPath(p)]].bytes).val).ok}
    IN  [p \in good |-> Deserialize(FsRead(inodes[d[JsonPath(p)]].bytes).val).val]

\* ------------------------------------------------------------ the callers
\* th[t]: pc is where thread t stands ("idle": between two calls, holding
\* the last call and its result in op .. res); todo lists the personas
\* whose persist() the running mutation has still to call.

Coords == Personas \X AllApps \X AllKeys

Call(op, p, p2, a, k, v) == [op |-> op, p |-> p, p2 |-> p2, a |-> a, k |-> k, v |-> v]

NoCall == Call("none", "", "", "", "", <<>>)

\* seen is history, taken when the call reads: for get the entry of lastSet,
\* for get_global the values that moves between two different personas
\* hold between their removal and their insertion, for wait the tasks of
\* the mutations that have returned. subs is history too: the personas
\* whose save the call has handed to spawn_blocking, in that order.
Idle(call, res) ==
    [pc |-> "idle", call |-> call, res |-> res, seen |-> {}, todo |-> <<>>, subs |-> <<>>]

Running(pc, call, todo) ==
    [pc |-> pc, call |-> call, res |-> Ok(NoVal), seen |-> {}, todo |-> todo, subs |-> <<>>]

CanStart(t) == ~crashed /\ th[t].pc = "idle" /\ opsLeft > 0

AllIdleNow == \A t \in DOMAIN th : th[t].pc = "idle"

InFlightMoves(a, k) ==
    {th[u].call.v : u \in {x \in DOMAIN th : /\ th[x].pc = "move_set"
                                            /\ th[x].call.a = a /\ th[x].call.k = k
                                            /\ th[x].call.p # th[x].call.p2}}

\* MemStore::get
Get(t, p, a, k) ==
    /\ CanStart(t)
    /\ th' = [th EXCEPT ![t] = [Idle(Call("get", p, "", a, k, <<>>), MemGet(data, p, a, k))
                                    EXCEPT !.seen = lastSet[<<p, a, k>>]]]
    /\ opsLeft' = opsLeft - 1
    /\ UNCHANGED <<data, pending, tasks, dir, ino, crashed, lastSet, nonWrite, persistence>>

\* MemStore::get_app_store
GetAppStore(t, p, a) ==
    /\ CanStart(t)
    /\ th' = [th EXCEPT ![t] = Idle(Call("get_app_store", p, "", a, "", <<>>), MemGetAppStore(data, p, a))]
    /\ opsLeft' = opsLeft - 1
    /\ UNCHANGED <<data, pending, tasks, dir, ino, crashed, lastSet, nonWrite, persistence>>

\* MemStore::dump_app
DumpApp(t, a) ==
    /\ CanStart(t)
    /\ th' = [th EXCEPT ![t] = Idle(Call("dump_app", "", "", a, "", <<>>), MemDumpApp(data, a))]
    /\ opsLeft' = opsLeft - 1
    /\ UNCHANGED <<data, pending, tasks, dir, ino, crashed, lastSet, nonWrite, persistence>>

\* MemStore::get_apps
GetApps(t, p) ==
    /\ CanStart(t)
    /\ th' = [th EXCEPT ![t] = Idle(Call("get_apps", p, "", "", "", <<>>), MemGetApps(data, p))]
    /\ opsLeft' = opsLeft - 1
    /\ UNCHANGED <<data, pending, tasks, dir, ino, crashed, lastSet, nonWrite, persistence>>

\* MemStore::get_global: the first holder in the map's iteration order.
GetGlobal(t, a, k) ==
    /\ CanStart(t)
    /\ \E r \in MemGetGlobal(data, a, k) :
         th' = [th EXCEPT ![t] = [Idle(Call("get_global", "", "", a, k, <<>>), r)
                                    EXCEPT !.seen = InFlightMoves(a, k)]]
    /\ opsLeft' = opsLeft - 1
    /\ UNCHANGED <<data, pending, tasks, dir, ino, crashed, lastSet, nonWrite, persistence>>

\* MemStore::set, the block under the write lock.
SetInsert(t, p, a, k, v) ==
    /\ CanStart(t)
    /\ data' = MemSet(data, p, a, k, v)
    /\ lastSet' = [lastSet EXCEPT ![<<p, a, k>>] = {v}]
    /\ th' = [th EXCEPT ![t] = Running("persist", Call("set", p, "", a, k, v), <<p>>)]
    /\ opsLeft' = opsLeft - 1
    /\ UNCHANGED <<pending, tasks, dir, ino, crashed, nonWrite, persistence>>

\* MemStore::delete, the block under the write lock.
DeleteRemove(t, p, a, k) ==
    /\ CanStart(t)
    /\ data' = MemDelete(data, p, a, k)
    /\ lastSet' = [lastSet EXCEPT ![<<p, a, k>>] = {}]
    /\ th' = [th EXCEPT ![t] = Running("persist", Call("delete", p, "", a, k, <<>>), <<p>>)]
    /\ opsLeft' = opsLeft - 1
    /\ nonWrite' = TRUE
    /\ UNCHANGED <<pending, tasks, dir, ino, crashed, persistence>>

\* Only the destination is saved.
MoveSavesDst(src, dst) == <<dst>>

\* The persist() calls of a move_key that took the value: that of
\* set(dst_persona, ..), then persist(src_persona).
MoveSaves(src, dst) == <<dst, src>>

\* MemStore::move_key, the first block under the write lock: the removal.
MoveRemove(t, src, dst, a, k) ==
    LET r == MoveRemoveResult(data, src, a, k)
        call == Call("move_key", src, dst, a, k, r.val)
    IN  /\ CanStart(t)
        /\ data' = MoveRemoveData(data, src, a, k)
        /\ lastSet' = IF r.kind = "Ok" THEN [lastSet EXCEPT ![<<src, a, k>>] = {}] ELSE lastSet
        /\ th' = [th EXCEPT ![t] = IF r.kind = "Ok"
                                    THEN Running("move_set", call, MoveSaves(src, dst))
                                    ELSE Idle(call, r)]
        /\ opsLeft' = opsLeft - 1
        /\ nonWrite' = TRUE
        /\ UNCHANGED <<pending, tasks, dir, ino, crashed, persistence>>

\* move_key's self.set(dst_persona, ..): the lock is taken a second time.
MoveInsert(t) ==
    LET c == th[t].call IN
    /\ ~crashed /\ th[t].pc = "move_set"
    /\ data' = MemSet(data, c.p2, c.a, c.k, c.v)
    /\ lastSet' = [lastSet EXCEPT ![<<c.p2, c.a, c.k>>] = {c.v}]
    /\ th' = [th EXCEPT ![t].pc = "persist"]
    /\ UNCHANGED <<pending, tasks, dir, ino, opsLeft, crashed, nonWrite, persistence>>

\* ---------------------------------------------------------------- persist
\* tasks[id]: one spawn_blocking closure. snap is the clone it was handed,
\* fd the inode its File::create opened (0: none), off its file offset.
\* owner, ret, awaited and prev are history: the thread whose mutation
\* spawned it, whether that mutation has returned, the threads that called
\* wait() after it had, and what <persona>.json held when it was spawned.

FreeTask == CHOOSE id \in TaskIds : id \notin DOMAIN tasks /\ \A j \in TaskIds : j < id => j \in DOMAIN tasks

\* What the file of that name holds: no element when there is no such file.
Content(d, inodes, name) == IF d[name] = 0 THEN {} ELSE {inodes[d[name]].bytes}

NewTask(t, p, snap) ==
    [persona |-> p, snap |-> snap, pc |-> "create", fd |-> 0, off |-> 0,
     err |-> FALSE, owner |-> t, ret |-> FALSE, awaited |-> {},
     prev |-> Content(dir, ino, JsonPath(p))]

Returned(ts, t) == [id \in DOMAIN ts |-> IF ts[id].owner = t THEN [ts[id] EXCEPT !.ret = TRUE] ELSE ts[id]]

\* MemStore::persist for the next persona of the running mutation: the
\* clone under the read lock, fetch_add, spawn_blocking. After the last one
\* the mutation returns Ok.
Persist(t) ==
    LET p == Head(th[t].todo)
        rest == Tail(th[t].todo)
        snaps == IF persistence THEN CopyPersonaData(data, p) ELSE {}
        spawned == IF snaps = {} THEN tasks
                   ELSE Put(tasks, FreeTask, NewTask(t, p, CHOOSE x \in snaps : TRUE))
    IN  /\ ~crashed /\ th[t].pc = "persist"
        /\ pending' = IF snaps = {} THEN pending ELSE pending + 1
        /\ tasks' = IF rest = <<>> THEN Returned(spawned, t) ELSE spawned
        /\ th' = [th EXCEPT ![t] =
                    LET subs == IF snaps = {} THEN th[t].subs ELSE Append(th[t].subs, p)
                    IN  IF rest = <<>> THEN [Idle(th[t].call, Ok(NoVal)) EXCEPT !.subs = subs]
                        ELSE [th[t] EXCEPT !.todo = rest, !.subs = subs]]
        /\ UNCHANGED <<data, dir, ino, opsLeft, crashed, lastSet, nonWrite, persistence>>

\* ---- the file system calls of Persistence::save_persona, on <<dir, ino>>
\* fs is [dir, ino]; ts are the tasks whose descriptors keep inodes alive.

\* fs::write, File::create of <persona>.json.tmp: the inode opened.
CreatedInode(fs, p) == IF fs.dir[TempPath(p)] # 0 THEN fs.dir[TempPath(p)] ELSE FreeInode(fs.ino)

FsCreate(fs, p) ==
    LET i == CreatedInode(fs, p) IN
    [dir |-> [fs.dir EXCEPT ![TempPath(p)] = i],
     ino |-> [fs.ino EXCEPT ![i] = [live |-> TRUE, bytes |-> <<>>]]]

\* fs::write, write_all: one write(2) of chunk at offset off of inode i.
FsWrite(fs, i, off, chunk) ==
    [dir |-> fs.dir,
     ino |-> [fs.ino EXCEPT ![i].bytes = WriteAt(fs.ino[i].bytes, off, chunk)]]

\* fs::rename of <persona>.json.tmp onto <persona>.json; ENOENT without it.
RenameFails(fs, p) == fs.dir[TempPath(p)] = 0

FsRename(fs, p) ==
    IF RenameFails(fs, p) THEN fs
    ELSE [dir |-> [fs.dir EXCEPT ![JsonPath(p)] = fs.dir[TempPath(p)], ![TempPath(p)] = 0],
          ino |-> fs.ino]

\* The chunk write_all hands to the next write(2) at offset off.
NextChunk(bytes, off) ==
    SubSeq(bytes, off + 1, IF Len(bytes) - off < ChunkLen THEN Len(bytes) ELSE off + ChunkLen)

FsNow == [dir |-> dir, ino |-> ino]

\* save_persona, File::create.
TaskCreate(id) ==
    LET tk == tasks[id]
        ts == [tasks EXCEPT ![id].pc = "write", ![id].off = 0,
                            ![id].fd = CreatedInode(FsNow, tk.persona)]
        c == Collect(FsCreate(FsNow, tk.persona), ts)
    IN  /\ ~crashed /\ id \in DOMAIN tasks /\ tk.pc = "create"
        /\ dir' = c.dir /\ ino' = c.ino /\ tasks' = c.tasks
        /\ UNCHANGED <<data, pending, th, opsLeft, crashed, lastSet, nonWrite, persistence>>

\* save_persona, write_all: the next write(2); the file is closed after the last.
TaskWrite(id) ==
    LET tk == tasks[id]
        bytes == Serialize(tk.snap)
        chunk == NextChunk(bytes, tk.off)
        last == tk.off + Len(chunk) = Len(bytes)
        ts == [tasks EXCEPT ![id].off = tk.off + Len(chunk),
                            ![id].pc = IF last THEN "rename" ELSE "write",
                            ![id].fd = IF last THEN 0 ELSE tk.fd]
        c == Collect(FsWrite(FsNow, tk.fd, tk.off, chunk), ts)
    IN  /\ ~crashed /\ id \in DOMAIN tasks /\ tk.pc = "write"
        /\ dir' = c.dir /\ ino' = c.ino /\ tasks' = c.tasks
        /\ UNCHANGED <<data, pending, th, opsLeft, crashed, lastSet, nonWrite, persistence>>

\* save_persona, fs::rename.
TaskRename(id) ==
    LET tk == tasks[id]
        ts == [tasks EXCEPT ![id].pc = "sub", ![id].err = RenameFails(FsNow, tk.persona)]
        c == Collect(FsRename(FsNow, tk.persona), ts)
    IN  /\ ~crashed /\ id \in DOMAIN tasks /\ tk.pc = "rename"
        /\ dir' = c.dir /\ ino' = c.ino /\ tasks' = c.tasks
        /\ UNCHANGED <<data, pending, th, opsLeft, crashed, lastSet, nonWrite, persistence>>

\* save_persona from File::create to fs::rename with no other file system
\* call in between (the schedule of specifications that do not look into
\* the files while they are written).
RECURSIVE WriteAll(_, _, _, _)
WriteAll(fs, i, bytes, off) ==
    IF off >= Len(bytes) THEN fs
    ELSE WriteAll(FsWrite(fs, i, off, NextChunk(bytes, off)), i, bytes,
                  off + Len(NextChunk(bytes, off)))

SavePersona(fs, p, snap) ==
    FsRename(WriteAll(FsCreate(fs, p), CreatedInode(fs, p), Serialize(snap), 0), p)

TaskSave(id) ==
    LET tk == tasks[id]
        ts == [tasks EXCEPT ![id].pc = "sub"]
        c == Collect(SavePersona(FsNow, tk.persona, tk.snap), ts)
    IN  /\ ~crashed /\ id \in DOMAIN tasks /\ tk.pc = "create"
        /\ dir' = c.dir /\ ino' = c.ino /\ tasks' = c.tasks
        /\ UNCHANGED <<data, pending, th, opsLeft, crashed, lastSet, nonWrite, persistence>>

\* save_persona returns an error: File::create fails and nothing is
\* written ("create"), write_all fails after its first write(2) ("write"),
\* or fs::rename fails and the temporary file stays ("rename").
SaveFailure(fs, p, snap, at) ==
    CASE at = "create" -> fs
      [] at = "write" -> FsWrite(FsCreate(fs, p), CreatedInode(fs, p), 0, NextChunk(Serialize(snap), 0))
      [] OTHER -> WriteAll(FsCreate(fs, p), CreatedInode(fs, p), Serialize(snap), 0)

TaskSaveFail(id, at) ==
    LET tk == tasks[id]
        ts == [tasks EXCEPT ![id].pc = "sub", ![id].err = TRUE]
        c == Collect(SaveFailure(FsNow, tk.persona, tk.snap, at), ts)
    IN  /\ ~crashed /\ id \in DOMAIN tasks /\ tk.pc = "create"
        /\ dir' = c.dir /\ ino' = c.ino /\ tasks' = c.tasks
        /\ UNCHANGED <<data, pending, th, opsLeft, crashed, lastSet, nonWrite, persistence>>

\* The closure leaves through the error and skips fetch_sub.
FetchSubOnOk(n, err) == IF err THEN n ELSE n - 1

\* pending.fetch_sub(1) at the end of the closure, whatever save_persona returned.
FetchSub(n, err) == n - 1

\* The end of the closure: the error is logged, then fetch_sub.
TaskFinish(id) ==
    /\ ~crashed /\ id \in DOMAIN tasks /\ tasks[id].pc = "sub"
    /\ pending' = FetchSub(pending, tasks[id].err)
    /\ tasks' = Remove(tasks, id)
    /\ UNCHANGED <<data, th, dir, ino, opsLeft, crashed, lastSet, nonWrite, persistence>>

\* ------------------------------------------------------------------- wait

\* The loop left one task early.
WaitMoreOffByOne(n) == n > 1

\* The loop goes on at a count of zero.
WaitMoreAtZero(n) == n >= 0

\* The condition of wait()'s loop.
WaitMore(n) == n > 0

\* MemStore::wait is called.
WaitCall(t) ==
    /\ CanStart(t)
    /\ th' = [th EXCEPT ![t] = [Running("wait", Call("wait", "", "", "", "", <<>>), <<>>)
                                    EXCEPT !.seen = {id \in DOMAIN tasks : tasks[id].ret}]]
    /\ tasks' = [id \in DOMAIN tasks |->
                    IF tasks[id].ret THEN [tasks[id] EXCEPT !.awaited = @ \cup {t}] ELSE tasks[id]]
    /\ opsLeft' = opsLeft - 1
    /\ UNCHANGED <<data, pending, dir, ino, crashed, lastSet, nonWrite, persistence>>

\* One load of the counter that ends the loop (a load that does not is a
\* sleep and leaves the state as it is).
WaitReturn(t) ==
    /\ ~crashed /\ th[t].pc = "wait"
    /\ ~WaitMore(pending)
    /\ th' = [th EXCEPT ![t] = [Idle(th[t].call, Ok(<<pending>>)) EXCEPT !.seen = th[t].seen]]
    /\ UNCHANGED <<data, pending, tasks, dir, ino, opsLeft, crashed, lastSet, nonWrite, persistence>>

\* ------------------------------------------------------ the line protocol
\* A line is a sequence of atoms without its newline.

Sp == " "

Quote == "\""

\* The characters of a string that is one atom, or none.
Atoms(s) == IF s = "" THEN <<>> ELSE <<s>>

\* serde_json::to_string of a string Value.
ToJson(v) == <<Quote>> \o v \o <<Quote>>

\* serde_json::from_str into a Value.
FromJson(text) ==
    IF /\ Len(text) >= 2 /\ text[1] = Quote /\ text[Len(text)] = Quote
       /\ \A i \in 2 .. (Len(text) - 1) : text[i] # Quote
    THEN [ok |-> TRUE, val |-> SubSeq(text, 2, Len(text) - 1)]
    ELSE [ok |-> FALSE, val |-> NoVal]

\* str::trim
RECURSIVE TrimStart(_)
TrimStart(line) == IF line # <<>> /\ Head(line) = Sp THEN TrimStart(Tail(line)) ELSE line

RECURSIVE TrimEnd(_)
TrimEnd(line) ==
    IF line # <<>> /\ line[Len(line)] = Sp THEN TrimEnd(SubSeq(line, 1, Len(line) - 1)) ELSE line

Trim(line) == TrimEnd(TrimStart(line))

\* str::split_whitespace: the maximal runs of non-blank atoms; cur is the
\* run being collected.
RECURSIVE Words(_, _, _)
Words(line, i, cur) ==
    IF i > Len(line) THEN (IF cur = <<>> THEN <<>> ELSE <<cur>>)
    ELSE IF line[i] = Sp
         THEN (IF cur = <<>> THEN <<>> ELSE <<cur>>) \o Words(line, i + 1, <<>>)
         ELSE Words(line, i + 1, Append(cur, line[i]))

SplitWhitespace(line) == Words(line, 1, <<>>)

\* parts[n..].join(" ")
RECURSIVE Join(_)
Join(words) ==
    IF words = <<>> THEN <<>>
    ELSE IF Len(words) = 1 THEN Head(words)
    ELSE Head(words) \o <<Sp>> \o Join(Tail(words))

\* The &str of one element of parts.
RECURSIVE Str(_)
Str(word) == IF word = <<>> THEN "" ELSE Head(word) \o Str(Tail(word))

\* str::to_uppercase, on the command words.
ToUppercase(s) ==
    CASE s = "get" -> "GET" [] s = "set" -> "SET" [] s = "del" -> "DEL"
      [] s = "move" -> "MOVE" [] s = "ping" -> "PING" [] s = "quit" -> "QUIT"
      [] OTHER -> s

\* One text for every lookup miss.
ErrTextFlat(kind) == <<"not", Sp, "found">>

\* Error's Display (thiserror), then to_lowercase.
ErrText(kind) ==
    CASE kind = "PersonaNotFound" -> <<"persona", Sp, "not", Sp, "found">>
      [] kind = "AppNotFound" -> <<"app", Sp, "not", Sp, "found">>
      [] kind = "KeyNotFound" -> <<"key", Sp, "not", Sp, "found">>
      [] OTHER -> <<"internal", Sp, "error:">>

\* ------------------------------------------------------------- the Client

ConnIds == 1 .. MaxConns

\* The command line each public operation formats.
CommandLine(c) ==
    CASE c.op = "get" -> <<"GET", Sp>> \o Atoms(c.p) \o <<Sp>> \o Atoms(c.a) \o <<Sp>> \o Atoms(c.k)
      [] c.op = "set" -> <<"SET", Sp>> \o Atoms(c.p) \o <<Sp>> \o Atoms(c.a) \o <<Sp>> \o Atoms(c.k)
                            \o <<Sp>> \o ToJson(c.v)
      [] c.op = "delete" -> <<"DEL", Sp>> \o Atoms(c.p) \o <<Sp>> \o Atoms(c.a) \o <<Sp>> \o Atoms(c.k)
      [] c.op = "move_key" -> <<"MOVE", Sp>> \o Atoms(c.p) \o <<Sp>> \o Atoms(c.p2) \o <<Sp>> \o Atoms(c.a)
                            \o <<Sp>> \o Atoms(c.k)
      [] OTHER -> <<>>

Internal(msg) == [kind |-> "Internal", val |-> msg]

\* send_and_receive, a line was read: resp.trim(), then ERR or Ok.
Received(line) ==
    LET resp == Trim(line) IN
    IF resp # <<>> /\ resp[1] = "ERR" THEN Internal(SubSeq(resp, 3, Len(resp))) ELSE Ok(resp)

\* What the public operation makes of send_and_receive's result.
ClientResult(c, sr) ==
    IF sr.kind # "Ok" THEN sr
    ELSE IF c.op # "get" THEN Ok(NoVal)
    ELSE IF Len(sr.val) < 2 \/ sr.val[1] # "OK" \/ sr.val[2] # Sp
         THEN Internal(<<"Invalid", Sp, "response">>)
    ELSE IF FromJson(SubSeq(sr.val, 3, Len(sr.val))).ok
         THEN Ok(FromJson(SubSeq(sr.val, 3, Len(sr.val))).val)
    ELSE Err("Serialization")

\* cl: pc is where send_and_receive stands ("idle": no call is running),
\* i the loop variable, conn the connection in inner (0: None), line the
\* response line read. History: n numbers the calls, applied[n] counts the
\* mutations the Engine started for call n, gv is the value the Engine
\* handled for the response read, direct what the MemStore, called with the
\* arguments of the call, returned at the moment the Router took the line
\* that response answers, prev the call before this one, faulty whether
\* the transport has failed, slept the sleeps of the call in milliseconds.
\* When tasks share the Client: me is the task whose call holds the lock of
\* inner, waiting the calls that wait for it, oldest first, blocked (history)
\* whether the call of me found the lock taken.
NoPrev == [call |-> NoCall, line |-> <<>>, gv |-> <<>>]

NoClient ==
    [pc |-> "idle", i |-> 0, conn |-> 0, call |-> NoCall, cmd |-> <<>>, line |-> <<>>,
     res |-> Ok(NoVal), n |-> 0, applied |-> <<>>, gv |-> <<>>, direct |-> Ok(NoVal),
     prev |-> NoPrev, faulty |-> FALSE, slept |-> <<>>,
     me |-> "u1", waiting |-> <<>>, blocked |-> FALSE]

\* conns[c]: st is the transport ("none": never opened), c2s and s2c the
\* lines under way, h where the Router's task stands ("read": in read_line,
\* "exec": awaiting the store, "done": returned). History: direct, for the
\* line the task is executing (see cl); cur, the number of that line; took,
\* the numbers of the command lines the task has matched to an arm that
\* responds; wrote, the numbers of the lines its responses answer.
\* full, whether every permit was taken when accept returned the
\* connection. fin: the peer has shut down its sending side.
NoConn ==
    [st |-> "none", c2s |-> <<>>, s2c |-> <<>>, h |-> "none", direct |-> Ok(NoVal),
     cur |-> 0, took |-> <<>>, wrote |-> <<>>, full |-> FALSE, fin |-> FALSE]

NewConn == [NoConn EXCEPT !.st = "up", !.h = "read"]

DeadConn == [NoConn EXCEPT !.st = "broken", !.h = "done"]

\* A public operation is called: send_and_receive takes the lock.
ClientCall(op, p, p2, a, k, v) ==
    /\ ~crashed /\ cl.pc = "idle" /\ cl.n < MaxCalls
    /\ cl' = [cl EXCEPT !.pc = "loop", !.i = 0,
                        !.call = Call(op, p, p2, a, k, v),
                        !.cmd = CommandLine(Call(op, p, p2, a, k, v)),
                        !.line = <<>>, !.gv = <<>>, !.direct = Ok(NoVal), !.res = Ok(NoVal),
                        !.n = @ + 1, !.applied = Append(@, 0), !.slept = <<>>,
                        !.prev = [call |-> cl.call, line |-> cl.line, gv |-> cl.gv]]
    /\ UNCHANGED conns

\* A loop without an upper end.
InLoopForEver == ~crashed /\ cl.pc = "loop"

InLoop == ~crashed /\ cl.pc = "loop" /\ cl.i < Attempts

FreeConn == CHOOSE c \in ConnIds : conns[c].st = "none" /\ \A j \in ConnIds : j < c => conns[j].st # "none"

\* connect_inner succeeds: the Router accepts and spawns the task.
ClientConnect ==
    /\ InLoop /\ cl.conn = 0
    /\ \E c \in ConnIds : conns[c].st = "none"
    /\ conns' = [conns EXCEPT ![FreeConn] = NewConn]
    /\ cl' = [cl EXCEPT !.conn = FreeConn]

\* Duration::from_millis((i + 1) * 200)
BackoffMs(i) == (i + 1) * 200

\* connect_inner fails: the error on the last attempt, the sleep otherwise.
ClientConnectFail ==
    /\ InLoop /\ cl.conn = 0
    /\ cl' = IF cl.i = Attempts - 1
             THEN [cl EXCEPT !.pc = "idle", !.i = 0, !.cmd = <<>>, !.res = Err("Io"), !.faulty = TRUE]
             ELSE [cl EXCEPT !.i = @ + 1, !.faulty = TRUE, !.slept = Append(@, BackoffMs(cl.i))]
    /\ UNCHANGED conns

\* write_all returns Ok: on a broken transport the bytes are lost.
ClientWrite ==
    /\ InLoop /\ cl.conn # 0
    /\ conns' = IF conns[cl.conn].st = "up"
                THEN [conns EXCEPT ![cl.conn].c2s =
                        Append(@, [line |-> cl.cmd, id |-> cl.n, call |-> cl.call])]
                ELSE conns
    /\ cl' = [cl EXCEPT !.pc = "read"]

\* The failed connection stays in inner.
StaleInner == cl.conn

\* *inner_guard = None
NoInner == 0

\* write_all returns Err: inner is dropped, the loop continues.
ClientWriteFail ==
    /\ InLoop /\ cl.conn # 0 /\ conns[cl.conn].st = "broken"
    /\ cl' = [cl EXCEPT !.conn = NoInner, !.i = @ + 1]
    /\ UNCHANGED conns

\* The connection is dropped when the line read is an ERR line.
DroppedOnErr(line, c) == IF Received(line).kind = "Internal" THEN 0 ELSE c

\* What inner holds after a line was read: both returns leave it alone.
KeptAfter(line, c) == c

\* read_line returns a line.
ClientRead ==
    LET c == cl.conn
        m == Head(conns[c].s2c)
    IN  /\ ~crashed /\ cl.pc = "read" /\ conns[c].st = "up" /\ conns[c].s2c # <<>>
        /\ conns' = [conns EXCEPT ![c].s2c = Tail(@)]
        /\ cl' = [cl EXCEPT !.pc = "idle", !.i = 0, !.cmd = <<>>, !.conn = KeptAfter(m.line, c),
                            !.line = Trim(m.line), !.gv = m.gv, !.direct = m.direct,
                            !.res = ClientResult(cl.call, Received(m.line))]

\* read_line returns Err, or Ok(0) after the Router's task has returned:
\* inner is dropped, the loop continues.
ClientReadFail ==
    LET c == cl.conn IN
    /\ ~crashed /\ cl.pc = "read"
    /\ conns[c].st = "broken" \/ (conns[c].h = "done" /\ conns[c].s2c = <<>>)
    /\ cl' = [cl EXCEPT !.pc = "loop", !.conn = NoInner, !.i = @ + 1]
    /\ UNCHANGED conns

\* The loop has run three times.
ClientGiveUp ==
    /\ ~crashed /\ cl.pc = "loop" /\ cl.i = Attempts
    /\ cl' = [cl EXCEPT !.pc = "idle", !.i = 0, !.cmd = <<>>,
                        !.res = Internal(<<"failed", Sp, "after", Sp, "3", Sp, "attempts">>)]
    /\ UNCHANGED conns

\* The transport of the connection the Client is calling on fails: what is
\* under way is lost, and a Router task that stands in read_line returns
\* with the error.
ConnBreak ==
    LET c == cl.conn IN
    /\ ~crashed /\ cl.pc # "idle" /\ c # 0 /\ conns[c].st = "up"
    /\ conns' = [conns EXCEPT ![c] = IF conns[c].h = "read" THEN DeadConn
                                      ELSE [DeadConn EXCEPT !.h = conns[c].h]]
    /\ th' = [th EXCEPT ![c] = IF conns[c].h = "read" THEN Idle(NoCall, Ok(NoVal)) ELSE th[c]]
    /\ cl' = [cl EXCEPT !.faulty = TRUE]
    /\ UNCHANGED <<data, pending, tasks, dir, ino, opsLeft, crashed, lastSet, nonWrite, persistence>>

\* ------------------------------------------------------------- the Router
\* The task of connection c calls the store as thread c of th.

Parts(c) == SplitWhitespace(Trim(Head(conns[c].c2s).line))

Command(parts) == ToUppercase(Str(parts[1]))

Reply(line) == [kind |-> "reply", line |-> line]

\* Too few arguments are answered like an unknown verb.
MissingAsUnknown == Reply(<<"ERR", Sp, "unknown", Sp, "command">>)

Missing == Reply(<<"ERR", Sp, "missing", Sp, "arguments">>)

ToStore == [kind |-> "store", line |-> <<>>]

\* The match on the command, up to the call of the store.
Route(parts) ==
    IF parts = <<>> THEN [kind |-> "continue", line |-> <<>>]
    ELSE LET command == Command(parts) IN
         CASE command = "GET" -> IF Len(parts) < 4 THEN Missing ELSE ToStore
           [] command = "SET" ->
                IF Len(parts) < 5 THEN Missing
                ELSE IF FromJson(Join(SubSeq(parts, 5, Len(parts)))).ok THEN ToStore
                ELSE Reply(<<"ERR", Sp, "invalid", Sp, "json", Sp, "value">>)
           [] command = "DEL" -> IF Len(parts) < 4 THEN Missing ELSE ToStore
           [] command = "MOVE" -> IF Len(parts) < 5 THEN Missing ELSE ToStore
           [] command = "LIST_PERSONAS" -> ToStore
           [] command = "LIST_APPS" -> IF Len(parts) < 2 THEN Missing ELSE ToStore
           [] command = "DUMP" -> IF Len(parts) < 3 THEN Missing ELSE ToStore
           [] command = "DUMP_APP" -> IF Len(parts) < 2 THEN Missing ELSE ToStore
           [] command = "GET_GLOBAL" -> IF Len(parts) < 3 THEN Missing ELSE ToStore
           [] command = "PING" -> Reply(<<"PONG">>)
           [] command = "QUIT" -> [kind |-> "break", line |-> <<>>]
           [] OTHER -> Reply(<<"ERR", Sp, "unknown", Sp, "command">>)

\* The response line for the store's result.
Response(c, res) ==
    IF res.kind = "Ok"
    THEN (IF c.op = "get" THEN <<"OK", Sp>> \o ToJson(res.val) ELSE <<"OK">>)
    ELSE <<"ERR", Sp>> \o ErrText(res.kind)

\* What the MemStore returns for call c on hierarchy d.
DirectResult(d, c) ==
    CASE c.op = "get" -> MemGet(d, c.p, c.a, c.k)
      [] c.op = "move_key" -> IF MoveRemoveResult(d, c.p, c.a, c.k).kind = "Ok"
                              THEN Ok(NoVal) ELSE MoveRemoveResult(d, c.p, c.a, c.k)
      [] OTHER -> Ok(NoVal)

\* The next line is taken while the store is still awaited.
CanRouteEager(c) ==
    ~crashed /\ conns[c].st = "up" /\ conns[c].h \in {"read", "exec"} /\ conns[c].c2s # <<>>

CanRoute(c) == ~crashed /\ conns[c].st = "up" /\ conns[c].h = "read" /\ conns[c].c2s # <<>>

\* read_line has returned the next line; the store is called (mutates: the
\* call is a mutation) or the response is written at once.
Taken(c, h, replies, mutates) ==
    LET m == Head(conns[c].c2s) IN
    /\ conns' = [conns EXCEPT ![c].c2s = Tail(@), ![c].h = h, ![c].s2c = @ \o replies,
                              ![c].direct = IF h = "exec" THEN DirectResult(data, m.call)
                                            ELSE Ok(NoVal),
                              ![c].cur = IF h = "exec" THEN m.id ELSE 0,
                              ![c].took = IF h = "exec" \/ replies # <<>> THEN Append(@, m.id) ELSE @,
                              ![c].wrote = IF replies # <<>> THEN Append(@, m.id) ELSE @]
    /\ cl' = [cl EXCEPT !.applied[m.id] = @ + mutates]

ToStoreWith(c, command) ==
    /\ CanRoute(c) /\ Route(Parts(c)).kind = "store" /\ Command(Parts(c)) = command

RouteGet(c) ==
    /\ ToStoreWith(c, "GET")
    /\ Get(c, Str(Parts(c)[2]), Str(Parts(c)[3]), Str(Parts(c)[4]))
    /\ Taken(c, "exec", <<>>, 0)

RouteSet(c) ==
    /\ ToStoreWith(c, "SET")
    /\ SetInsert(c, Str(Parts(c)[2]), Str(Parts(c)[3]), Str(Parts(c)[4]),
                 FromJson(Join(SubSeq(Parts(c), 5, Len(Parts(c))))).val)
    /\ Taken(c, "exec", <<>>, 1)

RouteDel(c) ==
    /\ ToStoreWith(c, "DEL")
    /\ DeleteRemove(c, Str(Parts(c)[2]), Str(Parts(c)[3]), Str(Parts(c)[4]))
    /\ Taken(c, "exec", <<>>, 1)

RouteMove(c) ==
    /\ ToStoreWith(c, "MOVE")
    /\ MoveRemove(c, Str(Parts(c)[2]), Str(Parts(c)[3]), Str(Parts(c)[4]), Str(Parts(c)[5]))
    /\ Taken(c, "exec", <<>>, 1)

\* The task returns after any arm that responds.
AfterArmClosing(kind) == IF kind = "continue" THEN "read" ELSE "done"

\* Where the task stands after an arm that does not call the store: break
\* leaves the loop, a response and continue go back to read_line.
AfterArm(kind) == IF kind = "break" THEN "done" ELSE "read"

\* The arms that do not call the store: a response, continue, or break.
RouteOther(c) ==
    LET r == Route(Parts(c)) IN
    /\ CanRoute(c) /\ r.kind # "store"
    /\ Taken(c, AfterArm(r.kind),
             IF r.kind = "reply"
             THEN <<[line |-> r.line, gv |-> <<>>, id |-> Head(conns[c].c2s).id,
                     direct |-> DirectResult(data, Head(conns[c].c2s).call)]>>
             ELSE <<>>, 0)
    /\ UNCHANGED <<data, pending, th, tasks, dir, ino, opsLeft, crashed, lastSet, nonWrite, persistence>>

\* The store has returned: the response is formatted and written.
RouterRespond(c) ==
    /\ ~crashed /\ conns[c].st = "up" /\ conns[c].h = "exec" /\ th[c].pc = "idle"
    /\ conns' = [conns EXCEPT ![c].h = "read", ![c].direct = Ok(NoVal),
                              ![c].cur = 0, ![c].wrote = Append(@, conns[c].cur),
                              ![c].s2c = Append(@, [line |-> Response(th[c].call, th[c].res),
                                                    gv |-> th[c].call.v, id |-> conns[c].cur,
                                                    direct |-> conns[c].direct])]
    /\ th' = [th EXCEPT ![c] = Idle(NoCall, Ok(NoVal))]
    /\ UNCHANGED <<data, pending, tasks, dir, ino, opsLeft, crashed, lastSet, nonWrite, persistence, cl>>

\* The store has returned and write_all fails on the broken transport: the
\* task returns with the error.
RouterEnd(c) ==
    /\ ~crashed /\ conns[c].st = "broken" /\ conns[c].h = "exec" /\ th[c].pc = "idle"
    /\ conns' = [conns EXCEPT ![c] = DeadConn]
    /\ th' = [th EXCEPT ![c] = Idle(NoCall, Ok(NoVal))]
    /\ UNCHANGED <<data, pending, tasks, dir, ino, opsLeft, crashed, lastSet, nonWrite, persistence, cl>>

\* ------------------------------------------- the pool and the raw peers
\* Semaphore::new(100)
PoolSize == 100

\* The tasks that hold a permit: they are in handle_connection.
\* The permit of a task that returned with an error is never dropped.
ServedLeaking ==
    others + Cardinality({c \in ConnIds : \/ conns[c].h \in {"read", "exec"}
                                          \/ conns[c].h = "done" /\ conns[c].st = "broken"})

Served == others + Cardinality({c \in ConnIds : conns[c].h \in {"read", "exec"}})

\* try_acquire fails on one permit more than the pool has.
NoPermitAbove(n) == n > PoolSize

\* try_acquire fails: no permit is left.
NoPermit(n) == n >= PoolSize

\* listener.accept returns the connection of a peer and the task is
\* spawned ("spawned": it has not run yet).
PeerConnect ==
    /\ ~crashed /\ \E c \in ConnIds : conns[c].st = "none"
    /\ conns' = [conns EXCEPT ![FreeConn] =
                    [NoConn EXCEPT !.st = "up", !.h = "spawned", !.full = (Served = PoolSize)]]
    /\ UNCHANGED <<cl, others>>

\* The task runs: try_acquire returns the permit, handle_connection starts.
RouterAcquire(c) ==
    /\ ~crashed /\ conns[c].h = "spawned" /\ ~NoPermit(Served)
    /\ conns' = [conns EXCEPT ![c].h = "read"]
    /\ UNCHANGED <<cl, others>>

\* The task runs: try_acquire fails, socket.shutdown, return.
RouterReject(c) ==
    /\ ~crashed /\ conns[c].h = "spawned" /\ NoPermit(Served)
    /\ conns' = [conns EXCEPT ![c].h = "rejected", ![c].st = "closed"]
    /\ UNCHANGED <<cl, others>>

\* A further peer is accepted and gets a permit; a further peer's task returns.
OtherArrives ==
    /\ ~crashed /\ ~NoPermit(Served)
    /\ others' = others + 1
    /\ UNCHANGED <<cl, conns>>

OtherLeaves ==
    /\ ~crashed /\ others > 0 /\ Served > PoolSize - MaxIdle
    /\ others' = others - 1
    /\ UNCHANGED <<cl, conns>>

\* What a peer writes: the command lines of the Client and lines the
\* Client never writes.
PeerLines ==
    { [line |-> CommandLine(c), call |-> c] :
        c \in { Call("get", "p1", "", "app1", "k1", <<>>),
                Call("set", "p1", "", "app1", "k1", <<"v2">>),
                Call("delete", "p1", "", "app1", "k1", <<>>) } }
    \cup { [line |-> l, call |-> NoCall] :
        l \in { <<"PING">>, <<"quit">>, <<Sp>>, <<"NOPE">>, <<"GET", Sp, "p1">>,
                <<"SET", Sp, "p1", Sp, "app1", Sp, "k1", Sp, "v2">> } }

\* The peer writes a line, whether or not the task has run.
PeerWrite(c, l) ==
    /\ ~crashed /\ conns[c].st = "up" /\ ~conns[c].fin /\ cl.n < MaxLines
    /\ conns' = [conns EXCEPT ![c].c2s = Append(@, [line |-> l.line, id |-> cl.n + 1, call |-> l.call])]
    /\ cl' = [cl EXCEPT !.n = @ + 1, !.applied = Append(@, 0)]
    /\ UNCHANGED others

\* The peer reads a response line.
PeerRead(c) ==
    /\ ~crashed /\ conns[c].st = "up" /\ conns[c].s2c # <<>>
    /\ conns' = [conns EXCEPT ![c].s2c = Tail(@)]
    /\ UNCHANGED <<cl, others>>

\* The peer shuts down its sending side.
PeerClose(c) ==
    /\ ~crashed /\ conns[c].st = "up" /\ ~conns[c].fin
    /\ conns' = [conns EXCEPT ![c].fin = TRUE]
    /\ UNCHANGED <<cl, others>>

\* read_line returns Ok(0): break.
RouterEof(c) ==
    /\ ~crashed /\ conns[c].h = "read" /\ conns[c].c2s = <<>> /\ conns[c].fin
    /\ conns' = [conns EXCEPT ![c].h = "done", ![c].st = "closed"]
    /\ UNCHANGED <<cl, others>>

\* ------------------------------------------------------------------- Init
\* The data directory the process starts on, written by an earlier run.

InitStores ==
    { EmptyMap,
      [p \in Personas |-> IF p = "p1" THEN [a \in {"app1"} |-> [k \in {"k1"} |-> <<"v1">>]]
                                      ELSE EmptyMap] }

\* The directory that holds exactly the files of store s.
RECURSIVE DirOf(_, _)
DirOf(s, ps) ==
    IF ps = {} THEN [n \in FileNames |-> 0]
    ELSE LET p == CHOOSE x \in ps : TRUE
             rest == DirOf(s, ps \ {p})
         IN  [rest EXCEPT ![JsonPath(p)] = 1 + Cardinality({n \in FileNames : rest[n] # 0})]

InodesOf(s, d) ==
    [i \in InodeIds |->
        IF \E p \in DOMAIN s : d[JsonPath(p)] = i
        THEN [live |-> TRUE, bytes |-> Serialize(s[CHOOSE p \in DOMAIN s : d[JsonPath(p)] = i])]
        ELSE [live |-> FALSE, bytes |-> <<>>]]

\* MemStore::new(persistence.load_all(), Some(persistence))
InitOn(s) ==
    /\ dir = Collect([dir |-> DirOf(s, DOMAIN s), ino |-> InodesOf(s, DirOf(s, DOMAIN s))], EmptyMap).dir
    /\ ino = Collect([dir |-> DirOf(s, DOMAIN s), ino |-> InodesOf(s, DirOf(s, DOMAIN s))], EmptyMap).ino
    /\ data = LoadAll(dir, ino)
    /\ pending = 0
    /\ th = [t \in Threads |-> Idle(NoCall, Ok(NoVal))]
    /\ tasks = EmptyMap
    /\ opsLeft = MaxOps
    /\ crashed = FALSE
    /\ lastSet = [c \in Coords |-> {}]
    /\ nonWrite = FALSE
    /\ persistence = TRUE
    /\ cl = NoClient
    /\ conns = [c \in ConnIds |-> NoConn]
    /\ others = 0

Init == \E s \in InitStores : InitOn(s)

\* The threads are interchangeable: t2 makes its first call after t1's.
InOrder(t) == t = "t2" => th["t1"].call.op # "none"

Next ==
    \/ \E t \in Threads, p \in Personas, a \in Apps, k \in Keys :
            InOrder(t) /\ Get(t, p, a, k) /\ UNCHANGED wire
    \/ \E t \in Threads, a \in Apps, k \in Keys :
            InOrder(t) /\ GetGlobal(t, a, k) /\ UNCHANGED wire
    \/ \E t \in Threads, p \in Personas, a \in Apps, k \in Keys, v \in Values :
            InOrder(t) /\ SetInsert(t, p, a, k, v) /\ UNCHANGED wire
    \/ \E t \in Threads, p \in Personas, a \in Apps, k \in Keys :
            InOrder(t) /\ DeleteRemove(t, p, a, k) /\ UNCHANGED wire
    \/ \E t \in Threads, src \in Personas, dst \in Personas, a \in Apps, k \in Keys :
            InOrder(t) /\ MoveRemove(t, src, dst, a, k) /\ UNCHANGED wire
    \/ \E t \in Threads : MoveInsert(t) /\ UNCHANGED wire
    \/ \E t \in Threads : Persist(t) /\ UNCHANGED wire
    \/ \E id \in TaskIds : TaskSave(id) /\ UNCHANGED wire
    \/ \E id \in TaskIds : TaskFinish(id) /\ UNCHANGED wire
    \/ \E t \in Threads : InOrder(t) /\ WaitCall(t) /\ UNCHANGED wire
    \/ \E t \in Threads : WaitReturn(t) /\ UNCHANGED wire

Spec == Init /\ [][Next]_vars

\* --------------------------------------------- one save at a time, crashes
\* The process is killed: what is on disk stays as it is.
Crash ==
    /\ ~crashed
    /\ crashed' = TRUE
    /\ UNCHANGED <<data, pending, th, tasks, dir, ino, opsLeft, lastSet, nonWrite, persistence>>

NoSaveRunning == DOMAIN tasks = {}

\* The callers keep the saves apart (no save of any persona overlaps
\* another), save_persona runs call by call, and the process may be killed
\* between any two calls.
NextSave ==
    \/ \E t \in Threads, p \in Personas, a \in Apps, k \in Keys, v \in Values :
            NoSaveRunning /\ AllIdleNow /\ InOrder(t) /\ SetInsert(t, p, a, k, v) /\ UNCHANGED wire
    \/ \E t \in Threads, p \in Personas, a \in Apps, k \in Keys :
            NoSaveRunning /\ AllIdleNow /\ InOrder(t) /\ DeleteRemove(t, p, a, k) /\ UNCHANGED wire
    \/ \E t \in Threads : Persist(t) /\ UNCHANGED wire
    \/ \E id \in TaskIds : TaskCreate(id) /\ UNCHANGED wire
    \/ \E id \in TaskIds : TaskWrite(id) /\ UNCHANGED wire
    \/ \E id \in TaskIds : TaskRename(id) /\ UNCHANGED wire
    \/ \E id \in TaskIds : TaskFinish(id) /\ UNCHANGED wire
    \/ Crash /\ UNCHANGED wire

SpecSave == Init /\ [][NextSave]_vars

\* C3: at every point of a save_persona at which the process may be
\* killed, <persona>.json is what it was before the save (absent, or a
\* complete file) until the rename and the complete new content after it,
\* never a partial file; when the save has returned Ok no .json.tmp is left.
C3_SaveIsCrashAtomic ==
    \A id \in DOMAIN tasks :
        LET tk == tasks[id]
            cur == Content(dir, ino, JsonPath(tk.persona))
        IN  /\ \A b \in cur : Deserialize(b).ok
            /\ tk.pc \in {"create", "write", "rename"} => cur = tk.prev
            /\ (tk.pc = "sub" /\ ~tk.err) =>
                    (cur = {Serialize(tk.snap)} /\ dir[TempPath(tk.persona)] = 0)

\* The process was killed with half of the new content in the temporary
\* file and an older complete file at the canonical path.
C3_Witness ==
    \E id \in DOMAIN tasks :
        /\ crashed /\ tasks[id].pc = "write" /\ tasks[id].off > 0
        /\ tasks[id].prev # {}
        /\ tasks[id].prev # {Serialize(tasks[id].snap)}
        /\ ~Deserialize(ino[dir[TempPath(tasks[id].persona)]].bytes).ok

\* ------------------------------------------------- saves that may fail
\* One caller on a data directory whose file system calls may return
\* errors.
InitFail ==
    \E s \in InitStores :
        /\ dir = Collect([dir |-> DirOf(s, DOMAIN s), ino |-> InodesOf(s, DirOf(s, DOMAIN s))], EmptyMap).dir
        /\ ino = Collect([dir |-> DirOf(s, DOMAIN s), ino |-> InodesOf(s, DirOf(s, DOMAIN s))], EmptyMap).ino
        /\ data = LoadAll(dir, ino)
        /\ pending = 0
        /\ th = [t \in {"t1"} |-> Idle(NoCall, Ok(NoVal))]
        /\ tasks = EmptyMap
        /\ opsLeft = MaxOps
        /\ crashed = FALSE
        /\ lastSet = [c \in Coords |-> {}]
        /\ nonWrite = FALSE
        /\ persistence = TRUE
        /\ cl = NoClient
        /\ conns = [c \in ConnIds |-> NoConn]
        /\ others = 0

NextFail ==
    \/ \E p \in Personas, a \in Apps, k \in Keys, v \in Values :
            SetInsert("t1", p, a, k, v) /\ UNCHANGED wire
    \/ \E p \in Personas, a \in Apps, k \in Keys :
            DeleteRemove("t1", p, a, k) /\ UNCHANGED wire
    \/ \E src \in Personas, dst \in Personas, a \in Apps, k \in Keys :
            MoveRemove("t1", src, dst, a, k) /\ UNCHANGED wire
    \/ MoveInsert("t1") /\ UNCHANGED wire
    \/ Persist("t1") /\ UNCHANGED wire
    \/ \E id \in TaskIds : TaskSave(id) /\ UNCHANGED wire
    \/ \E id \in TaskIds, at \in {"create", "write", "rename"} : TaskSaveFail(id, at) /\ UNCHANGED wire
    \/ \E id \in TaskIds : TaskFinish(id) /\ UNCHANGED wire

SpecFail == InitFail /\ [][NextFail]_vars

\* C15: whatever save_persona returns, a set, a delete and a move_key that
\* found its key return Ok, the hierarchy holds the latest Write of every
\* coordinate, and the closure of a failed save still decrements the
\* count, which stays the number of closures alive.
C15_FailedSaveFailsNothing ==
    /\ [](/\ pending = Cardinality(DOMAIN tasks)
          /\ \A t \in DOMAIN th :
                (th[t].pc = "idle" /\ th[t].call.op \in {"set", "delete"}) => th[t].res = Ok(NoVal)
          /\ \A t \in DOMAIN th :
                (th[t].pc = "idle" /\ th[t].call.op = "move_key" /\ th[t].call.v # NoVal)
                    => th[t].res = Ok(NoVal)
          /\ \A c \in Coords :
                lastSet[c] # {} => (Present(data, c[1], c[2], c[3])
                                    /\ {data[c[1]][c[2]][c[3]]} = lastSet[c]))
    /\ [][\A id \in DOMAIN tasks :
            (tasks[id].err /\ id \notin DOMAIN tasks') =>
                (pending' = pending - 1 /\ data' = data /\ th' = th)]_vars

\* The save of a set has failed after the set returned Ok: memory holds
\* the value, the data directory does not.
C15_Witness ==
    \E id \in DOMAIN tasks :
        LET t == tasks[id].owner
            c == th[t].call
        IN  /\ tasks[id].err /\ tasks[id].pc = "sub" /\ tasks[id].ret
            /\ th[t].pc = "idle" /\ c.op = "set" /\ th[t].res = Ok(NoVal)
            /\ Present(data, c.p, c.a, c.k) /\ data[c.p][c.a][c.k] = c.v
            /\ ~Present(LoadAll(dir, ino), c.p, c.a, c.k)

\* ------------------------------------------------- the Engine, one caller
\* MemStore::new(initial_data, None) with one caller, whose operations
\* follow one another, over two apps and two keys.
InitStoresSeq ==
    { EmptyMap,
      [p \in {"p1"} |-> [a \in AllApps |-> IF a = "app1" THEN [k \in AllKeys |-> <<"v1">>]
                                                          ELSE EmptyMap]] }

InitSeq ==
    /\ data \in InitStoresSeq
    /\ dir = [n \in FileNames |-> 0]
    /\ ino = [i \in InodeIds |-> [live |-> FALSE, bytes |-> <<>>]]
    /\ pending = 0
    /\ th = [t \in {"t1"} |-> Idle(NoCall, Ok(NoVal))]
    /\ tasks = EmptyMap
    /\ opsLeft = MaxSeqOps
    /\ crashed = FALSE
    /\ lastSet = [c \in Coords |-> {}]
    /\ nonWrite = FALSE
    /\ persistence = FALSE
    /\ cl = NoClient
    /\ conns = [c \in ConnIds |-> NoConn]
    /\ others = 0

NextSeq ==
    \/ \E p \in Personas, a \in AllApps, k \in AllKeys : Get("t1", p, a, k) /\ UNCHANGED wire
    \/ \E p \in Personas, a \in AllApps : GetAppStore("t1", p, a) /\ UNCHANGED wire
    \/ \E a \in AllApps : DumpApp("t1", a) /\ UNCHANGED wire
    \/ \E p \in Personas : GetApps("t1", p) /\ UNCHANGED wire
    \/ \E p \in Personas, a \in AllApps, k \in AllKeys, v \in Values :
            SetInsert("t1", p, a, k, v) /\ UNCHANGED wire
    \/ \E p \in Personas, a \in AllApps, k \in AllKeys : DeleteRemove("t1", p, a, k) /\ UNCHANGED wire
    \/ Persist("t1") /\ UNCHANGED wire

SpecSeq == InitSeq /\ [][NextSeq]_vars

\* The containers of hierarchy d: its personas and the apps of each.
Containers(d) == [p \in DOMAIN d |-> DOMAIN d[p]]

\* C11: delete never errors; deleting a key whose persona, app or key is
\* absent leaves the hierarchy exactly as it was (no container is
\* created), and deleting the key a second time leaves the state the
\* first delete left.
C11_DeleteIsIdempotent ==
    [][/\ (\A p \in Personas, a \in AllApps, k \in AllKeys :
              DeleteRemove("t1", p, a, k) =>
                  /\ (~Present(data, p, a, k) => data' = data)
                  /\ ~Present(data', p, a, k)
                  /\ MemDelete(data', p, a, k) = data'
                  /\ th'["t1"].call.op = "delete" /\ th'["t1"].pc = "persist")
        /\ ((th["t1"].call.op = "delete" /\ Persist("t1")) =>
              (th'["t1"].pc = "idle" /\ th'["t1"].res = Ok(NoVal) /\ data' = data))]_vars

\* A delete in a persona that does not exist has returned Ok, and the
\* persona still does not exist.
C11_Witness ==
    /\ th["t1"].pc = "idle" /\ th["t1"].call.op = "delete" /\ th["t1"].res = Ok(NoVal)
    /\ th["t1"].call.p \notin DOMAIN data /\ data # EmptyMap

\* C12: delete(s, n, k) removes that key only: every other key of every
\* persona and app keeps its value, every persona and app stays as a
\* container, and a get of (s, n, k) then reports KeyNotFound, also when
\* k was the last key of its app.
C12_DeleteTouchesOneKey ==
    [][\A p \in Personas, a \in AllApps, k \in AllKeys :
          DeleteRemove("t1", p, a, k) =>
              /\ Containers(data') = Containers(data)
              /\ \A c \in Coords \ {<<p, a, k>>} :
                    /\ (Present(data', c[1], c[2], c[3]) <=> Present(data, c[1], c[2], c[3]))
                    /\ (Present(data, c[1], c[2], c[3]) =>
                            data'[c[1]][c[2]][c[3]] = data[c[1]][c[2]][c[3]])
              /\ ((p \in DOMAIN data /\ a \in DOMAIN data[p]) =>
                    MemGet(data', p, a, k) = Err("KeyNotFound"))]_vars

\* The last key of an app was deleted while another app holds keys: the
\* app is an empty container.
C12_Witness ==
    /\ th["t1"].call.op = "delete" /\ th["t1"].pc = "idle"
    /\ "p1" \in DOMAIN data /\ AllApps \subseteq DOMAIN data["p1"]
    /\ data["p1"][th["t1"].call.a] = EmptyMap
    /\ th["t1"].call.p = "p1" /\ th["t1"].call.a = "app2"
    /\ DOMAIN data["p1"]["app1"] = AllKeys

\* C13: get(s, n, k) fails with PersonaNotFound iff s is absent, with
\* AppNotFound iff s exists and n is absent in s, with KeyNotFound iff s
\* and n exist and k is absent, and returns the stored value otherwise;
\* get_app_store follows the same order for its two levels.
C13_MissesInHierarchyOrder ==
    LET c == th["t1"].call
        r == th["t1"].res
        hasP == c.p \in DOMAIN data
        hasA == hasP /\ c.a \in DOMAIN data[c.p]
        hasK == hasA /\ c.k \in DOMAIN data[c.p][c.a]
    IN  /\ (th["t1"].pc = "idle" /\ c.op = "get") =>
              /\ (r.kind = "PersonaNotFound" <=> ~hasP)
              /\ (r.kind = "AppNotFound" <=> (hasP /\ ~hasA))
              /\ (r.kind = "KeyNotFound" <=> (hasA /\ ~hasK))
              /\ (r.kind = "Ok" <=> hasK)
              /\ (hasK => r.val = data[c.p][c.a][c.k])
        /\ (th["t1"].pc = "idle" /\ c.op = "get_app_store") =>
              /\ (r.kind = "PersonaNotFound" <=> ~hasP)
              /\ (r.kind = "AppNotFound" <=> (hasP /\ ~hasA))
              /\ (r.kind = "Ok" <=> hasA)
              /\ (hasA => r.val = data[c.p][c.a])

\* A get has reported AppNotFound in a persona that holds another app.
C13_Witness ==
    /\ th["t1"].pc = "idle" /\ th["t1"].call.op = "get"
    /\ th["t1"].res.kind = "AppNotFound"
    /\ th["t1"].call.p \in DOMAIN data /\ data[th["t1"].call.p] # EmptyMap

\* -------------------------------------------- the Client and the Router
\* MemStore::new(initial_data, None) behind a Router, and a Client whose
\* connect() has succeeded.
InitWire ==
    /\ data \in InitStores
    /\ dir = [n \in FileNames |-> 0]
    /\ ino = [i \in InodeIds |-> [live |-> FALSE, bytes |-> <<>>]]
    /\ pending = 0
    /\ th = [c \in ConnIds |-> Idle(NoCall, Ok(NoVal))]
    /\ tasks = EmptyMap
    /\ opsLeft = Attempts * MaxCalls
    /\ crashed = FALSE
    /\ lastSet = [c \in Coords |-> {}]
    /\ nonWrite = FALSE
    /\ persistence = FALSE
    /\ cl = [NoClient EXCEPT !.conn = 1]
    /\ conns = [c \in ConnIds |-> IF c = 1 THEN NewConn ELSE NoConn]
    /\ others = 0

Engine == <<data, pending, th, tasks, dir, ino, opsLeft, crashed, lastSet, nonWrite, persistence>>

\* The transport holds: no connection fails, the Client never reconnects.
NextRemote ==
    \/ \E p \in Personas, a \in Apps, k \in Keys \cup {""} :
            ClientCall("get", p, "", a, k, <<>>) /\ UNCHANGED <<Engine, others>>
    \/ \E p \in Personas, a \in Apps, k \in Keys, v \in Values :
            ClientCall("set", p, "", a, k, v) /\ UNCHANGED <<Engine, others>>
    \/ \E p \in Personas, a \in Apps, k \in Keys :
            ClientCall("delete", p, "", a, k, <<>>) /\ UNCHANGED <<Engine, others>>
    \/ \E src \in Personas, dst \in Personas, a \in Apps, k \in Keys :
            ClientCall("move_key", src, dst, a, k, <<>>) /\ UNCHANGED <<Engine, others>>
    \/ ClientWrite /\ UNCHANGED <<Engine, others>>
    \/ ClientRead /\ UNCHANGED <<Engine, others>>
    \/ \E c \in ConnIds : RouteGet(c) /\ UNCHANGED others
    \/ \E c \in ConnIds : RouteSet(c) /\ UNCHANGED others
    \/ \E c \in ConnIds : RouteDel(c) /\ UNCHANGED others
    \/ \E c \in ConnIds : RouteMove(c) /\ UNCHANGED others
    \/ \E c \in ConnIds : RouteOther(c) /\ UNCHANGED others
    \/ \E c \in ConnIds : MoveInsert(c) /\ UNCHANGED wire
    \/ \E c \in ConnIds : Persist(c) /\ UNCHANGED wire
    \/ \E c \in ConnIds : RouterRespond(c) /\ UNCHANGED others

SpecRemote == InitWire /\ [][NextRemote]_vars

\* The transport may fail at any moment of a call.
MayCall == cl.n < MaxFaultyCalls

NextWire ==
    \/ \E p \in Personas, a \in Apps, k \in Keys \cup {""} :
            MayCall /\ ClientCall("get", p, "", a, k, <<>>) /\ UNCHANGED <<Engine, others>>
    \/ \E p \in Personas, a \in Apps, k \in Keys, v \in Values :
            MayCall /\ ClientCall("set", p, "", a, k, v) /\ UNCHANGED <<Engine, others>>
    \/ \E p \in Personas, a \in Apps, k \in Keys :
            MayCall /\ ClientCall("delete", p, "", a, k, <<>>) /\ UNCHANGED <<Engine, others>>
    \/ \E src \in Personas, dst \in Personas, a \in Apps, k \in Keys :
            MayCall /\ ClientCall("move_key", src, dst, a, k, <<>>) /\ UNCHANGED <<Engine, others>>
    \/ ClientConnect /\ UNCHANGED <<Engine, others>>
    \/ ClientConnectFail /\ UNCHANGED <<Engine, others>>
    \/ ClientWrite /\ UNCHANGED <<Engine, others>>
    \/ ClientWriteFail /\ UNCHANGED <<Engine, others>>
    \/ ClientRead /\ UNCHANGED <<Engine, others>>
    \/ ClientReadFail /\ UNCHANGED <<Engine, others>>
    \/ ClientGiveUp /\ UNCHANGED <<Engine, others>>
    \/ ConnBreak /\ UNCHANGED others
    \/ \E c \in ConnIds : RouteGet(c) /\ UNCHANGED others
    \/ \E c \in ConnIds : RouteSet(c) /\ UNCHANGED others
    \/ \E c \in ConnIds : RouteDel(c) /\ UNCHANGED others
    \/ \E c \in ConnIds : RouteMove(c) /\ UNCHANGED others
    \/ \E c \in ConnIds : RouteOther(c) /\ UNCHANGED others
    \/ \E c \in ConnIds : MoveInsert(c) /\ UNCHANGED wire
    \/ \E c \in ConnIds : Persist(c) /\ UNCHANGED wire
    \/ \E c \in ConnIds : RouterRespond(c) /\ UNCHANGED others
    \/ \E c \in ConnIds : RouterEnd(c) /\ UNCHANGED others

SpecWire == InitWire /\ [][NextWire]_vars

\* ------------------------------------------------- tasks that share a Client
\* The tasks that hold the Client, and the calls they make in all.
Callers == {"u1", "u2"}
MaxSharedCalls == 2

\* Nothing stops a second call from entering.
MutexFreeAlways == TRUE

\* self.inner.lock() can be taken: no call holds the guard.
MutexFree == cl.pc = "idle"

\* A task calls a public operation: send_and_receive awaits inner.lock().
SharedCall(u, op, p, a, k, v) ==
    /\ ~crashed
    /\ ~(cl.me = u /\ cl.pc # "idle")
    /\ \A i \in DOMAIN cl.waiting : cl.waiting[i].who # u
    /\ Len(cl.applied) + Len(cl.waiting) < MaxSharedCalls
    /\ cl' = [cl EXCEPT !.waiting = Append(@, [who |-> u, call |-> Call(op, p, "", a, k, v),
                                               blocked |-> cl.pc # "idle"])]
    /\ UNCHANGED conns

\* The lock is granted to the call that has waited longest, which enters
\* the loop.
SharedLock ==
    LET w == Head(cl.waiting) IN
    /\ ~crashed /\ cl.waiting # <<>> /\ MutexFree
    /\ cl' = [cl EXCEPT !.me = w.who, !.waiting = Tail(@), !.blocked = w.blocked,
                        !.pc = "loop", !.i = 0, !.call = w.call, !.cmd = CommandLine(w.call),
                        !.line = <<>>, !.gv = <<>>, !.direct = Ok(NoVal), !.res = Ok(NoVal),
                        !.n = Len(cl.applied) + 1, !.applied = Append(@, 0), !.slept = <<>>,
                        !.prev = [call |-> cl.call, line |-> cl.line, gv |-> cl.gv]]
    /\ UNCHANGED conns

\* The transport fails during the first call only.
NextShared ==
    \/ \E u \in Callers, p \in Personas, a \in Apps, k \in Keys :
            SharedCall(u, "get", p, a, k, <<>>) /\ UNCHANGED <<Engine, others>>
    \/ \E u \in Callers, p \in Personas, a \in Apps, k \in Keys, v \in Values :
            SharedCall(u, "set", p, a, k, v) /\ UNCHANGED <<Engine, others>>
    \/ SharedLock /\ UNCHANGED <<Engine, others>>
    \/ ClientConnect /\ UNCHANGED <<Engine, others>>
    \/ ClientConnectFail /\ UNCHANGED <<Engine, others>>
    \/ ClientWrite /\ UNCHANGED <<Engine, others>>
    \/ ClientWriteFail /\ UNCHANGED <<Engine, others>>
    \/ ClientRead /\ UNCHANGED <<Engine, others>>
    \/ ClientReadFail /\ UNCHANGED <<Engine, others>>
    \/ ClientGiveUp /\ UNCHANGED <<Engine, others>>
    \/ cl.n <= MaxFaultyCalls /\ ConnBreak /\ UNCHANGED others
    \/ \E c \in ConnIds : RouteGet(c) /\ UNCHANGED others
    \/ \E c \in ConnIds : RouteSet(c) /\ UNCHANGED others
    \/ \E c \in ConnIds : Persist(c) /\ UNCHANGED wire
    \/ \E c \in ConnIds : RouterRespond(c) /\ UNCHANGED others
    \/ \E c \in ConnIds : RouterEnd(c) /\ UNCHANGED others

SpecShared == InitWire /\ [][NextShared]_vars

\* The command lines of connection c that have no response read yet.
Outstanding(c) ==
    Len(conns[c].c2s) + Len(conns[c].s2c) + (IF conns[c].h = "exec" THEN 1 ELSE 0)

\* C32: when tasks share a Client, a command is written on its connection
\* only after the call before it has read its response or given up (one
\* command at most is under way on a live connection), and the line a call
\* reads is the response to its own command.
C32_ExchangesArePaired ==
    /\ [](\A c \in ConnIds : conns[c].st = "up" => Outstanding(c) <= 1)
    /\ [][ClientRead =>
            /\ Head(conns[cl.conn].s2c).id = cl.n
            /\ cl'.me = cl.me /\ cl'.call = cl.call
            /\ cl'.res = ClientResult(cl.call, Received(Head(conns[cl.conn].s2c).line))]_vars

\* The call of u2 waited for the lock while the call of u1 was under way,
\* and has read the value u1's call had set.
C32_Witness ==
    /\ cl.pc = "idle" /\ cl.me = "u2" /\ cl.blocked /\ cl.n = 2
    /\ cl.call.op = "get" /\ cl.prev.call.op = "set"
    /\ cl.res = Ok(cl.prev.call.v)

\* ------------------------------------------------ the Router and one peer
\* MemStore::new(initial_data, None) behind a Router nobody is connected to.
InitPeer ==
    /\ data \in InitStores
    /\ dir = [n \in FileNames |-> 0]
    /\ ino = [i \in InodeIds |-> [live |-> FALSE, bytes |-> <<>>]]
    /\ pending = 0
    /\ th = [c \in ConnIds |-> Idle(NoCall, Ok(NoVal))]
    /\ tasks = EmptyMap
    /\ opsLeft = MaxLines
    /\ crashed = FALSE
    /\ lastSet = [c \in Coords |-> {}]
    /\ nonWrite = FALSE
    /\ persistence = FALSE
    /\ cl = NoClient
    /\ conns = [c \in ConnIds |-> NoConn]
    /\ others = 0

\* One peer that writes its lines without waiting for the responses.
NextPeer ==
    \/ conns[1].st = "none" /\ PeerConnect /\ UNCHANGED Engine
    \/ \E c \in ConnIds : RouterAcquire(c) /\ UNCHANGED Engine
    \/ \E c \in ConnIds, l \in PeerLines : PeerWrite(c, l) /\ UNCHANGED Engine
    \/ \E c \in ConnIds : PeerRead(c) /\ UNCHANGED Engine
    \/ \E c \in ConnIds : PeerClose(c) /\ UNCHANGED Engine
    \/ \E c \in ConnIds : RouterEof(c) /\ UNCHANGED Engine
    \/ \E c \in ConnIds : RouteGet(c) /\ UNCHANGED others
    \/ \E c \in ConnIds : RouteSet(c) /\ UNCHANGED others
    \/ \E c \in ConnIds : RouteDel(c) /\ UNCHANGED others
    \/ \E c \in ConnIds : RouteOther(c) /\ UNCHANGED others
    \/ \E c \in ConnIds : Persist(c) /\ UNCHANGED wire
    \/ \E c \in ConnIds : RouterRespond(c) /\ UNCHANGED others

SpecPeer == InitPeer /\ [][NextPeer]_vars

\* C17: on every connection the responses written answer, in order, the
\* command lines taken (blank lines and QUIT have no response); a taken
\* command lacks its response only while the store is awaited for it, at
\* most one at a time; and the store is called for a command only after
\* every command taken before it has its response written.
C17_OneAtATime ==
    /\ [](\A c \in ConnIds :
            LET k == conns[c] IN
            /\ Len(k.wrote) <= Len(k.took)
            /\ SubSeq(k.took, 1, Len(k.wrote)) = k.wrote
            /\ Len(k.took) - Len(k.wrote) = (IF k.h = "exec" THEN 1 ELSE 0)
            /\ (k.h = "exec" => k.took[Len(k.took)] = k.cur)
            /\ (th[c].pc # "idle" => k.h = "exec")
            /\ \A i \in 1 .. Len(k.s2c) :
                    k.s2c[i].id = k.wrote[Len(k.wrote) - Len(k.s2c) + i])
    /\ [][\A c \in ConnIds :
            (conns[c].h # "exec" /\ conns'[c].h = "exec") =>
                /\ conns[c].wrote = conns[c].took
                /\ conns'[c].took = Append(conns[c].took, Head(conns[c].c2s).id)]_vars

\* The store is awaited for the second command while the first response
\* is written and the third line is already there.
C17_Witness ==
    \E c \in ConnIds :
        /\ conns[c].h = "exec" /\ th[c].pc # "idle"
        /\ Len(conns[c].wrote) = 1 /\ conns[c].c2s # <<>>

\* C18: a response that begins with ERR leaves the task in read_line on
\* an open connection; handle_connection returns only on end-of-stream, on
\* a broken transport, or on QUIT, and QUIT writes no response.
C18_ErrKeepsOpen ==
    [][\A c \in ConnIds :
        /\ (/\ Len(conns'[c].wrote) > Len(conns[c].wrote)
            /\ conns'[c].s2c[Len(conns'[c].s2c)].line[1] = "ERR") =>
                (conns'[c].h = "read" /\ conns'[c].st = "up")
        /\ (conns[c].h \in {"read", "exec"} /\ conns'[c].h = "done") =>
                \/ conns[c].c2s = <<>> /\ conns[c].fin
                \/ conns[c].st = "broken" \/ conns'[c].st = "broken"
                \/ /\ conns[c].c2s # <<>> /\ Parts(c) # <<>> /\ Command(Parts(c)) = "QUIT"
                   /\ conns'[c].wrote = conns[c].wrote /\ conns'[c].s2c = conns[c].s2c]_vars

\* Two ERR responses are under way to the peer and the task has served a
\* third line, or waits for it.
C18_Witness ==
    \E c \in ConnIds :
        /\ conns[c].st = "up" /\ conns[c].h \in {"read", "exec"}
        /\ Len(conns[c].s2c) >= 2
        /\ conns[c].s2c[1].line[1] = "ERR" /\ conns[c].s2c[2].line[1] = "ERR"
        /\ conns[c].s2c[1].line # conns[c].s2c[2].line

\* C20: the loop variable of a call only counts up, by one for every
\* failed attempt, an attempt is under way only while it is below three,
\* the Engine starts at most three mutations for one call, after the third
\* failure the call does nothing but return `failed after 3 attempts`, and
\* a call that returns without having read a line returns an error.
C20_AtMostThreeAttempts ==
    /\ [](/\ cl.i <= Attempts
          /\ (cl.pc = "read" => cl.i < Attempts)
          /\ \A n \in DOMAIN cl.applied : cl.applied[n] <= Attempts)
    /\ [][/\ (cl'.i # cl.i => (cl'.i = cl.i + 1 \/ cl'.i = 0))
          /\ (cl.pc # "idle" /\ cl'.i = 0 /\ cl.i # 0 => cl'.pc = "idle")
          /\ (cl.i = Attempts =>
                \/ cl'.pc = cl.pc /\ cl'.i = cl.i /\ cl'.conn = cl.conn
                \/ /\ cl'.pc = "idle"
                   /\ cl'.res = Internal(<<"failed", Sp, "after", Sp, "3", Sp, "attempts">>))
          /\ (cl.pc # "idle" /\ cl'.pc = "idle" /\ cl'.line = <<>> =>
                cl'.res.kind \in {"Io", "Internal"})]_vars

\* Three attempts have failed after the command was written and the call
\* has returned the terminal error.
C20_Witness ==
    /\ cl.pc = "idle" /\ cl.n > 0 /\ cl.line = <<>>
    /\ cl.res = Internal(<<"failed", Sp, "after", Sp, "3", Sp, "attempts">>)
    /\ \A c \in ConnIds : conns[c].st = "broken"

\* C21: when an attempt of a call starts after i failed ones, the Client
\* has slept i times in that call, each time longer than the time before.
C21_BackoffBetweenAttempts ==
    (cl.pc # "idle" /\ cl.i < Attempts) =>
        /\ Len(cl.slept) = cl.i
        /\ \A j \in 1 .. Len(cl.slept) - 1 : cl.slept[j] < cl.slept[j + 1]

\* The Client has returned from a call whose response line began with ERR.
ErrAnswered == cl.pc = "idle" /\ cl.line # <<>> /\ cl.line[1] = "ERR"

\* C22: the step in which the Client reads a line that begins with ERR is
\* the return of the call, with Internal(the text after ERR); from then on
\* the Client holds the connection it read from, the connection is open,
\* none of its lines is under way to the Router or in execution.
C22_ErrIsNotRetried ==
    /\ [](ErrAnswered =>
            /\ cl.res = Internal(SubSeq(cl.line, 3, Len(cl.line)))
            /\ cl.conn # 0 /\ conns[cl.conn].st = "up"
            /\ conns[cl.conn].c2s = <<>> /\ conns[cl.conn].h = "read")
    /\ [][(/\ cl.pc = "read" /\ cl.conn # 0 /\ conns[cl.conn].s2c # <<>>
           /\ conns'[cl.conn].st = "up" /\ conns'[cl.conn].s2c = Tail(conns[cl.conn].s2c)
           /\ Head(conns[cl.conn].s2c).line[1] = "ERR") =>
                (ErrAnswered' /\ cl'.conn = cl.conn /\ cl'.n = cl.n)]_vars

\* An ERR line was read on the second attempt of a call, on the connection
\* that attempt opened.
C22_Witness == ErrAnswered /\ cl.faulty /\ cl.conn = 2

TransportError ==
    /\ cl.pc = "idle" /\ cl.n > 0
    /\ \/ cl.res = Err("Io")
       \/ cl.res = Internal(<<"failed", Sp, "after", Sp, "3", Sp, "attempts">>)

C27_DumpAndEnumerate ==
    LET r == th["t1"].res
        c == th["t1"].call
    IN  /\ (th["t1"].pc = "idle" /\ c.op = "dump_app") =>
                /\ r.kind = "Ok"
                /\ DOMAIN r.val = {p \in Personas : p \in DOMAIN data /\ c.a \in DOMAIN data[p]}
                /\ \A p \in DOMAIN r.val : r.val[p] = data[p][c.a]
        /\ (th["t1"].pc = "idle" /\ c.op = "get_apps") =>
                /\ r.kind = "Ok"
                /\ \A a \in AllApps : (a \in r.val <=> (c.p \in DOMAIN data /\ a \in DOMAIN data[c.p]))
                /\ (c.p \notin DOMAIN data => r.val = {})

\* dump_app has answered with one persona whose app is empty and one whose
\* app holds a key.
C27_Witness ==
    /\ th["t1"].pc = "idle" /\ th["t1"].call.op = "dump_app"
    /\ \E p, q \in DOMAIN th["t1"].res.val :
            th["t1"].res.val[p] = EmptyMap /\ th["t1"].res.val[q] # EmptyMap

\* --------------------------------------------------------------- the vault
\* Strings are sequences of one-character atoms here, bytes are 0 .. 255.
HexDigits == <<"0", "1", "2", "3", "4", "5", "6", "7", "8", "9", "a", "b", "c", "d", "e", "f">>

\* hex::encode
RECURSIVE HexEncode(_)
HexEncode(bytes) ==
    IF bytes = <<>> THEN <<>>
    ELSE <<HexDigits[(Head(bytes) \div 16) + 1], HexDigits[(Head(bytes) % 16) + 1]>>
            \o HexEncode(Tail(bytes))

IsHex(ch) == \E i \in DOMAIN HexDigits : HexDigits[i] = ch

HexVal(ch) == (CHOOSE i \in DOMAIN HexDigits : HexDigits[i] = ch) - 1

\* hex::decode
HexDecode(text) ==
    IF Len(text) % 2 # 0 \/ \E i \in DOMAIN text : ~IsHex(text[i])
    THEN [ok |-> FALSE, val |-> <<>>]
    ELSE [ok |-> TRUE,
          val |-> [i \in 1 .. (Len(text) \div 2) |-> 16 * HexVal(text[2 * i - 1]) + HexVal(text[2 * i])]]

\* The characters of the plaintexts and their UTF-8 bytes.
PlainChars == <<"a", "9", "z">>
PlainBytes == <<97, 57, 122>>

\* str::as_bytes
AsBytes(str) == [i \in DOMAIN str |-> PlainBytes[CHOOSE j \in DOMAIN PlainChars : PlainChars[j] = str[i]]]

\* String::from_utf8
FromUtf8(bytes) ==
    IF \A i \in DOMAIN bytes : \E j \in DOMAIN PlainBytes : PlainBytes[j] = bytes[i]
    THEN [ok |-> TRUE,
          val |-> [i \in DOMAIN bytes |-> PlainChars[CHOOSE j \in DOMAIN PlainBytes : PlainBytes[j] = bytes[i]]]]
    ELSE [ok |-> FALSE, val |-> <<>>]

\* The master keys of the callers: two of 32 bytes, one of 16.
KeyIds == {"K1", "K2", "K16"}

KeyBytes(id) ==
    CASE id = "K1" -> [i \in 1 .. 32 |-> 1]
      [] id = "K2" -> [i \in 1 .. 32 |-> 2]
      [] OTHER -> [i \in 1 .. 16 |-> 1]

\* What generate_nonce(&mut OsRng) may return: 12 bytes.
Nonces == {[i \in 1 .. 12 |-> 0], [i \in 1 .. 12 |-> 7]}

\* Aes256Gcm is a crate outside the repository. It is modelled by a stream
\* cipher with a keyed tag of 16 bytes: the ciphertext is as long as the
\* plaintext plus the tag, and a tag made with one key of the model does
\* not verify with another.
RECURSIVE Sum(_)
Sum(bytes) == IF bytes = <<>> THEN 0 ELSE Head(bytes) + Sum(Tail(bytes))

KeyStream(key, nonce, i) == (key[((i - 1) % 32) + 1] + nonce[((i - 1) % 12) + 1] + i) % 256

AeadTag(key, nonce, body) ==
    [j \in 1 .. 16 |-> (key[j] + key[j + 16] + nonce[((j - 1) % 12) + 1] + Sum(body) + j) % 256]

\* cipher.encrypt(&nonce, plaintext)
AeadEncrypt(key, nonce, pt) ==
    LET body == [i \in DOMAIN pt |-> (pt[i] + KeyStream(key, nonce, i)) % 256]
    IN  body \o AeadTag(key, nonce, body)

\* cipher.decrypt(nonce, ciphertext)
AeadDecrypt(key, nonce, ct) ==
    IF Len(ct) < 16 THEN [ok |-> FALSE, val |-> <<>>]
    ELSE LET body == SubSeq(ct, 1, Len(ct) - 16)
             tag == SubSeq(ct, Len(ct) - 15, Len(ct))
         IN  IF tag # AeadTag(key, nonce, body) THEN [ok |-> FALSE, val |-> <<>>]
             ELSE [ok |-> TRUE,
                   val |-> [i \in DOMAIN body |-> (body[i] + 256 - KeyStream(key, nonce, i)) % 256]]

\* The nonce is not put in front of the ciphertext.
CombinedNoNonce(nonce, ct) == ct

\* combined = nonce.to_vec(); combined.extend_from_slice(&ciphertext)
Combined(nonce, ct) == nonce \o ct

\* vault::encrypt, with the nonce the generator returned.
Encrypt(plaintext, key, nonce) ==
    IF Len(key) # 32 THEN Internal(<<"Key", Sp, "must", Sp, "be", Sp, "32", Sp, "bytes">>)
    ELSE Ok(HexEncode(Combined(nonce, AeadEncrypt(key, nonce, AsBytes(plaintext)))))

\* vault::decrypt
Decrypt(cipher_hex, key) ==
    IF Len(key) # 32 THEN Internal(<<"Key", Sp, "must", Sp, "be", Sp, "32", Sp, "bytes">>)
    ELSE IF ~HexDecode(cipher_hex).ok THEN Internal(<<"hex">>)
    ELSE LET combined == HexDecode(cipher_hex).val IN
         IF Len(combined) < 12 THEN Internal(<<"Ciphertext", Sp, "too", Sp, "short">>)
         ELSE LET pt == AeadDecrypt(key, SubSeq(combined, 1, 12), SubSeq(combined, 13, Len(combined)))
              IN  IF ~pt.ok THEN Internal(<<"decryption", Sp, "failed">>)
                  ELSE IF ~FromUtf8(pt.val).ok THEN Internal(<<"utf8">>)
                  ELSE Ok(FromUtf8(pt.val).val)

\* What the callers of the model put in a vault.
Plaintexts == {<<>>, <<"a">>, <<"a", "9">>}

\* MemVaultScope::set on the scope of (p, a) with the master key `key`:
\* encrypt, then MemStore::set of the hex string up to its persist().
VaultSet(t, p, a, k, plaintext, key, nonce) ==
    LET cipher_hex == Encrypt(plaintext, KeyBytes(key), nonce)
        call == Call("vault_set", p, key, a, k, plaintext)
    IN  /\ CanStart(t)
        /\ opsLeft' = opsLeft - 1
        /\ IF cipher_hex.kind # "Ok"
           THEN /\ th' = [th EXCEPT ![t] = Idle(call, cipher_hex)]
                /\ UNCHANGED <<data, lastSet>>
           ELSE /\ data' = MemSet(data, p, a, k, cipher_hex.val)
                /\ lastSet' = [lastSet EXCEPT ![<<p, a, k>>] = {cipher_hex.val}]
                /\ th' = [th EXCEPT ![t] = Running("persist", call, <<p>>)]
        /\ UNCHANGED <<pending, tasks, dir, ino, crashed, nonWrite, persistence>>

\* MemVaultScope::get: MemStore::get, then decrypt of the string.
VaultGet(t, p, a, k, key) ==
    LET val == MemGet(data, p, a, k)
        res == IF val.kind # "Ok" THEN val ELSE Decrypt(val.val, KeyBytes(key))
    IN  /\ CanStart(t)
        /\ th' = [th EXCEPT ![t] = Idle(Call("vault_get", p, key, a, k, <<>>), res)]
        /\ opsLeft' = opsLeft - 1
        /\ UNCHANGED <<data, pending, tasks, dir, ino, crashed, lastSet, nonWrite, persistence>>

\* One caller with vault scopes and plain scopes on the same store.
NextVault ==
    \/ \E p \in Personas, a \in Apps, k \in Keys, pt \in Plaintexts, key \in KeyIds, n \in Nonces :
            VaultSet("t1", p, a, k, pt, key, n) /\ UNCHANGED wire
    \/ \E p \in Personas, a \in Apps, k \in Keys, key \in KeyIds :
            VaultGet("t1", p, a, k, key) /\ UNCHANGED wire
    \/ \E p \in Personas, a \in Apps, k \in Keys : Get("t1", p, a, k) /\ UNCHANGED wire
    \/ \E p \in Personas, a \in Apps, k \in Keys, v \in Values :
            SetInsert("t1", p, a, k, v) /\ UNCHANGED wire
    \/ Persist("t1") /\ UNCHANGED wire

SpecVault == InitSeq /\ [][NextVault]_vars

\* C28: a plaintext sealed with a 32-byte key opens to itself with that
\* key and fails to open with another 32-byte key; vault.set(key, p)
\* followed by vault.get(key) with the same master key returns p, and
\* the value the Engine holds for the key is a string different from p.
C28_EnvelopeRoundTrip ==
    [][\A p \in Personas, a \in Apps, k \in Keys, k2 \in {"K1", "K2"} :
          VaultGet("t1", p, a, k, k2) =>
              /\ (\A pt \in Plaintexts, k1 \in {"K1", "K2"}, n \in Nonces :
                      MemGet(data, p, a, k) = Encrypt(pt, KeyBytes(k1), n) =>
                          /\ (k2 = k1 => th'["t1"].res = Ok(pt))
                          /\ (k2 # k1 => th'["t1"].res.kind = "Internal"))
              /\ ((/\ th["t1"].call.op = "vault_set" /\ th["t1"].res.kind = "Ok"
                    /\ th["t1"].call.p = p /\ th["t1"].call.a = a /\ th["t1"].call.k = k) =>
                      /\ MemGet(data, p, a, k).kind = "Ok"
                      /\ MemGet(data, p, a, k).val # th["t1"].call.v
                      /\ (k2 = th["t1"].call.p2 => th'["t1"].res = Ok(th["t1"].call.v))
                      /\ (k2 # th["t1"].call.p2 => th'["t1"].res.kind = "Internal"))]_vars

\* A vault.get has returned a plaintext of two characters and the Engine
\* holds another string for the key.
C28_Witness ==
    /\ th["t1"].pc = "idle" /\ th["t1"].call.op = "vault_get"
    /\ th["t1"].res = Ok(<<"a", "9">>)
    /\ MemGet(data, th["t1"].call.p, th["t1"].call.a, th["t1"].call.k).kind = "Ok"
    /\ MemGet(data, th["t1"].call.p, th["t1"].call.a, th["t1"].call.k).val # <<"a", "9">>

\* ------------------------------------------- one caller and its saves
\* One caller that reads and mutates while the saves run on the blocking
\* pool, each save_persona without another one in between.
NextOne ==
    \/ \E p \in Personas, a \in Apps, k \in Keys : Get("t1", p, a, k) /\ UNCHANGED wire
    \/ \E p \in Personas, a \in Apps : GetAppStore("t1", p, a) /\ UNCHANGED wire
    \/ \E a \in Apps, k \in Keys : GetGlobal("t1", a, k) /\ UNCHANGED wire
    \/ \E p \in Personas, a \in Apps, k \in Keys, v \in Values :
            SetInsert("t1", p, a, k, v) /\ UNCHANGED wire
    \/ \E p \in Personas, a \in Apps, k \in Keys :
            DeleteRemove("t1", p, a, k) /\ UNCHANGED wire
    \/ \E src \in Personas, dst \in Personas, a \in Apps, k \in Keys :
            MoveRemove("t1", src, dst, a, k) /\ UNCHANGED wire
    \/ MoveInsert("t1") /\ UNCHANGED wire
    \/ Persist("t1") /\ UNCHANGED wire
    \/ \E id \in TaskIds : TaskSave(id) /\ UNCHANGED wire
    \/ \E id \in TaskIds : TaskFinish(id) /\ UNCHANGED wire

SpecOne == InitFail /\ [][NextOne]_vars

\* The saves the last call of the caller has to submit, given the store
\* it left.
SavesDue(c, res) ==
    CASE c.op = "set" -> <<c.p>>
      [] c.op = "delete" -> IF c.p \in DOMAIN data THEN <<c.p>> ELSE <<>>
      [] c.op = "move_key" /\ res.kind = "Ok" -> <<c.p2, c.p>>
      [] OTHER -> <<>>

C26_GlobalFindsAHolder ==
    LET r == th["t1"].res
        c == th["t1"].call
    IN  (th["t1"].pc = "idle" /\ c.op = "get_global") =>
            /\ (r.kind = "Ok" =>
                    (Present(data, r.persona, c.a, c.k) /\ data[r.persona][c.a][c.k] = r.val))
            /\ (r.kind # "Ok" => r = Err("KeyNotFound"))
            /\ (r = Err("KeyNotFound") <=> ~\E p \in Personas : Present(data, p, c.a, c.k))

\* get_global has answered while both personas hold the key with
\* different values.
C26_Witness ==
    /\ th["t1"].pc = "idle" /\ th["t1"].call.op = "get_global" /\ th["t1"].res.kind = "Ok"
    /\ Present(data, "p1", "app1", "k1") /\ Present(data, "p2", "app1", "k1")
    /\ data["p1"]["app1"]["k1"] # data["p2"]["app1"]["k1"]
    /\ th["t1"].res.persona = "p2"

\* ------------------------------------------------- load_all on any files
\* The persona maps over the apps, keys and values of the model.
KeyMaps == UNION {[ks -> Values] : ks \in SUBSET AllKeys}

PersonaMaps == UNION {[as -> KeyMaps] : as \in SUBSET AllApps}

\* What a <persona>.json may hold when the process starts: files
\* save_persona wrote, files cut short, empty files, files of NULs, JSON of
\* another shape, and files that cannot be read.
GoodFiles ==
    { Serialize(m) : m \in { EmptyMap,
                             [a \in {"app1"} |-> EmptyMap],
                             [a \in {"app1"} |-> [k \in {"k1"} |-> <<"v1">>]],
                             [a \in AllApps |-> [k \in {"k2"} |-> <<"v2">>]] } }

BadFiles ==
    { SubSeq(f, 1, Len(f) - 1) : f \in GoodFiles }
        \cup { <<>>, <<Nul>>, Unreadable,
               <<Tok("{", "", <<>>), Tok("kv", "k1", <<"v1">>), Tok("}", "", <<>>)>> }

NoFile == <<Tok("enoent", "", <<>>)>>

\* The directory and the inodes for the contents f gives to the names.
FilesOf(f) ==
    Collect([dir |-> [n \in FileNames |->
                        IF f[n] = NoFile THEN 0
                        ELSE CHOOSE i \in DOMAIN NameOrder : NameOrder[i] = n],
             ino |-> [i \in InodeIds |->
                        IF i \in DOMAIN NameOrder /\ f[NameOrder[i]] # NoFile
                        THEN [live |-> TRUE, bytes |-> f[NameOrder[i]]]
                        ELSE [live |-> FALSE, bytes |-> <<>>]]], EmptyMap)

\* A data directory left by earlier runs, before MemStore::new.
InitLoad ==
    /\ \E f \in [FileNames -> GoodFiles \cup BadFiles \cup {NoFile}] :
            /\ \A p \in Personas : f[TempPath(p)] \in {NoFile, <<Tok("{", "", <<>>)>>}
            /\ dir = FilesOf(f).dir
            /\ ino = FilesOf(f).ino
    /\ data = EmptyMap
    /\ pending = 0
    /\ th = [t \in {"t1"} |-> Idle(NoCall, Ok(NoVal))]
    /\ tasks = EmptyMap
    /\ opsLeft = 0
    /\ crashed = FALSE
    /\ lastSet = [c \in Coords |-> {}]
    /\ nonWrite = FALSE
    /\ persistence = TRUE
    /\ cl = NoClient
    /\ conns = [c \in ConnIds |-> NoConn]
    /\ others = 0

\* MemStore::new(persistence.load_all()?, Some(persistence))
Load ==
    /\ th["t1"].call.op = "none"
    /\ data' = LoadAll(dir, ino)
    /\ th' = [th EXCEPT !["t1"] = Idle(Call("load_all", "", "", "", "", <<>>), Ok(NoVal))]
    /\ UNCHANGED <<pending, tasks, dir, ino, opsLeft, crashed, lastSet, nonWrite, persistence>>

NextLoad == Load /\ UNCHANGED wire

SpecLoad == InitLoad /\ [][NextLoad]_vars

Loaded == th["t1"].call.op = "load_all"

\* The content of <persona>.json, NoFile when there is none.
FileOf(p) == IF dir[JsonPath(p)] = 0 THEN NoFile ELSE ino[dir[JsonPath(p)]].bytes

\* C24: after load_all the store holds a persona exactly for the files
\* <persona>.json whose content is the serialization of a persona map,
\* and holds that map, whatever the other files are.
C24_LoadSkipsBadFiles ==
    Loaded =>
        \A p \in Personas :
            /\ (p \in DOMAIN data <=> \E m \in PersonaMaps : FileOf(p) = Serialize(m))
            /\ \A m \in PersonaMaps : (FileOf(p) = Serialize(m) => data[p] = m)

\* One persona was loaded with a key while the file of the other is cut
\* short and a staging file lies about.
C24_Witness ==
    /\ Loaded
    /\ "p1" \in DOMAIN data /\ Present(data, "p1", "app1", "k1")
    /\ "p2" \notin DOMAIN data /\ FileOf("p2") \in BadFiles \ {<<>>, Unreadable}
    /\ dir[TempPath("p1")] # 0

\* ------------------------------------- saves that run at the same time
\* One caller mutates; the save tasks run on the blocking pool call by
\* call of save_persona, in any interleaving.
NextRace ==
    \/ \E p \in Personas, a \in Apps, k \in Keys, v \in Values :
            SetInsert("t1", p, a, k, v) /\ UNCHANGED wire
    \/ Persist("t1") /\ UNCHANGED wire
    \/ \E id \in TaskIds : TaskCreate(id) /\ UNCHANGED wire
    \/ \E id \in TaskIds : TaskWrite(id) /\ UNCHANGED wire
    \/ \E id \in TaskIds : TaskRename(id) /\ UNCHANGED wire
    \/ \E id \in TaskIds : TaskFinish(id) /\ UNCHANGED wire

SpecRace == InitFail /\ [][NextRace]_vars

\* The complete serializations of the persona maps.
Complete == {Serialize(m) : m \in PersonaMaps}

\* C29: whatever the interleaving of the saves of one persona, its
\* <persona>.json holds a complete serialization of a snapshot, never a
\* partial or mixed write, and no save ends with an error.
C29_SavesNeverCorrupt ==
    /\ \A p \in Personas : Content(dir, ino, JsonPath(p)) \subseteq Complete
    /\ \A id \in DOMAIN tasks : ~tasks[id].err

\* ------------------------------------------------------- the drain loop
\* Callers that mutate and wait, and save tasks that succeed or fail.
NextDrain ==
    \/ \E t \in Threads, p \in Personas, a \in Apps, k \in Keys, v \in Values :
            InOrder(t) /\ SetInsert(t, p, a, k, v) /\ UNCHANGED wire
    \/ \E t \in Threads : Persist(t) /\ UNCHANGED wire
    \/ \E id \in TaskIds : TaskSave(id) /\ UNCHANGED wire
    \/ \E id \in TaskIds, at \in {"create", "write", "rename"} : TaskSaveFail(id, at) /\ UNCHANGED wire
    \/ \E id \in TaskIds : TaskFinish(id) /\ UNCHANGED wire
    \/ \E t \in Threads : InOrder(t) /\ WaitCall(t) /\ UNCHANGED wire
    \/ \E t \in Threads : WaitReturn(t) /\ UNCHANGED wire

\* A step of a closure on the blocking pool: save_persona returns, with
\* Ok or with an error, or the closure ends.
TaskStep ==
    /\ \E id \in TaskIds :
            \/ TaskFinish(id)
            \/ \E at \in {"create", "write", "rename"} : TaskSaveFail(id, at)
            \/ TaskSave(id)
    /\ UNCHANGED wire

\* The blocking pool runs every closure it was given to its end, and the
\* loop of wait() loads the counter again after every sleep.
DrainFair ==
    /\ WF_vars(TaskStep)
    /\ \A t \in Threads : WF_vars(WaitReturn(t) /\ UNCHANGED wire)

SpecDrain == Init /\ [][NextDrain]_vars /\ DrainFair

\* C30: the count is the number of save tasks spawned and not finished
\* and is never negative; once the callers issue no more mutations it
\* returns to zero, and every wait() that was called returns.
C30_DrainTerminates ==
    /\ [](pending = Cardinality(DOMAIN tasks) /\ pending >= 0)
    /\ ((pending > 0) ~> (pending = 0))
    /\ (\A t \in Threads :
            (th[t].pc = "wait") ~> (th[t].pc = "idle" /\ th[t].call.op = "wait"))

\* wait() was called while a save task was alive, a save has failed, and
\* wait() has returned with the count at zero.
C30_Witness ==
    \E t \in Threads :
        /\ th[t].pc = "idle" /\ th[t].call.op = "wait" /\ th[t].seen # {}
        /\ pending = 0
        /\ \E p \in Personas : dir[TempPath(p)] # 0

\* --------------------------------------------- two moves of one source key
\* The store that holds k1 of app1 under p1.
Seeded == CHOOSE s \in InitStores : s # EmptyMap

\* The personas a move may name as its destination.
Destinations == Personas \cup {"p3"}

\* MemStore::new(initial_data, None) with two callers.
InitMoves ==
    /\ data = Seeded
    /\ dir = [n \in FileNames |-> 0]
    /\ ino = [i \in InodeIds |-> [live |-> FALSE, bytes |-> <<>>]]
    /\ pending = 0
    /\ th = [t \in Threads |-> Idle(NoCall, Ok(NoVal))]
    /\ tasks = EmptyMap
    /\ opsLeft = MaxOps
    /\ crashed = FALSE
    /\ lastSet = [c \in Destinations \X AllApps \X AllKeys |-> {}]
    /\ nonWrite = FALSE
    /\ persistence = FALSE
    /\ cl = NoClient
    /\ conns = [c \in ConnIds |-> NoConn]
    /\ others = 0

\* Each of two callers moves the key of p1 once, to any persona.
NextMoves ==
    \/ \E t \in Threads, dst \in Destinations :
            /\ th[t].call.op = "none"
            /\ MoveRemove(t, "p1", dst, "app1", "k1") /\ UNCHANGED wire
    \/ \E t \in Threads : MoveInsert(t) /\ UNCHANGED wire
    \/ \E t \in Threads : Persist(t) /\ UNCHANGED wire

SpecMoves == InitMoves /\ [][NextMoves]_vars

\* Both callers have moved and returned.
BothMoved == \A t \in Threads : th[t].pc = "idle" /\ th[t].call.op = "move_key"

\* Both moves have returned, they named different destinations, neither
\* the source, and the caller that started second has won.
C31_Witness ==
    /\ BothMoved
    /\ th["t1"].call.p2 = "p2" /\ th["t2"].call.p2 = "p3"
    /\ th["t2"].res.kind = "Ok" /\ th["t1"].res.kind = "KeyNotFound"

\* The value is held by exactly one persona, the destination of the move
\* that returned Ok.
HeldOnce ==
    \E w \in Threads :
        /\ th[w].res.kind = "Ok"
        /\ {p \in Destinations : Present(data, p, "app1", "k1")} = {th[w].call.p2}
        /\ data[th[w].call.p2]["app1"]["k1"] = Seeded["p1"]["app1"]["k1"]

\* C31: of two concurrent moves of one source key exactly one returns Ok
\* and the other KeyNotFound, and afterwards the value is held by exactly
\* one destination persona.
C31_MovesConserve ==
    BothMoved =>
        /\ \E w \in Threads : \A t \in Threads :
                th[t].res = IF t = w THEN Ok(NoVal) ELSE Err("KeyNotFound")
        /\ HeldOnce

\* C31 as amended: the same, for two moves whose destinations are not the
\* source persona.
C31_MovesToOthersConserve ==
    (BothMoved /\ \A t \in Threads : th[t].call.p2 # th[t].call.p) =>
        /\ \E w \in Threads : \A t \in Threads :
                th[t].res = IF t = w THEN Ok(NoVal) ELSE Err("KeyNotFound")
        /\ HeldOnce

\* ------------------------------------------- values that contain blanks
\* JSON strings without a blank, with one, and with a run of two.
WireValues == {<<"v1">>, <<"a", Sp, "b">>, <<"a", Sp, Sp, "b">>}

\* The Client of SpecRemote, setting and getting such values.
NextValue ==
    \/ \E p \in Personas, a \in Apps, k \in Keys :
            ClientCall("get", p, "", a, k, <<>>) /\ UNCHANGED <<Engine, others>>
    \/ \E p \in Personas, a \in Apps, k \in Keys, v \in WireValues :
            ClientCall("set", p, "", a, k, v) /\ UNCHANGED <<Engine, others>>
    \/ ClientWrite /\ UNCHANGED <<Engine, others>>
    \/ ClientRead /\ UNCHANGED <<Engine, others>>
    \/ \E c \in ConnIds : RouteGet(c) /\ UNCHANGED others
    \/ \E c \in ConnIds : RouteSet(c) /\ UNCHANGED others
    \/ \E c \in ConnIds : Persist(c) /\ UNCHANGED wire
    \/ \E c \in ConnIds : RouterRespond(c) /\ UNCHANGED others

SpecValue == InitWire /\ [][NextValue]_vars

\* C19: a get that follows a set of the same coordinates answered OK
\* returns exactly the value that was set.
C19_ValueRoundTrip ==
    (/\ cl.pc = "idle" /\ cl.call.op = "get"
     /\ cl.prev.call.op = "set" /\ cl.prev.line = <<"OK">>
     /\ cl.call.p = cl.prev.call.p /\ cl.call.a = cl.prev.call.a /\ cl.call.k = cl.prev.call.k)
        => cl.res = Ok(cl.prev.call.v)

\* ------------------------------------------------ the Router and its pool
\* A Router whose permits are all taken, or all but one, by further peers.
InitPool ==
    /\ data = EmptyMap
    /\ dir = [n \in FileNames |-> 0]
    /\ ino = [i \in InodeIds |-> [live |-> FALSE, bytes |-> <<>>]]
    /\ pending = 0
    /\ th = [c \in ConnIds |-> Idle(NoCall, Ok(NoVal))]
    /\ tasks = EmptyMap
    /\ opsLeft = 0
    /\ crashed = FALSE
    /\ lastSet = [c \in Coords |-> {}]
    /\ nonWrite = FALSE
    /\ persistence = FALSE
    /\ cl = NoClient
    /\ conns = [c \in ConnIds |-> NoConn]
    /\ others \in {PoolSize - 1, PoolSize}

\* Peers that connect, send PING and leave.
NextPool ==
    \/ PeerConnect /\ UNCHANGED Engine
    \/ \E c \in ConnIds : RouterAcquire(c) /\ UNCHANGED Engine
    \/ \E c \in ConnIds : RouterReject(c) /\ UNCHANGED Engine
    \/ OtherArrives /\ UNCHANGED Engine
    \/ OtherLeaves /\ UNCHANGED Engine
    \/ \E c \in ConnIds :
            cl.n < MaxPings /\ PeerWrite(c, [line |-> <<"PING">>, call |-> NoCall]) /\ UNCHANGED Engine
    \/ \E c \in ConnIds : PeerRead(c) /\ UNCHANGED Engine
    \/ \E c \in ConnIds : PeerClose(c) /\ UNCHANGED Engine
    \/ \E c \in ConnIds : RouterEof(c) /\ UNCHANGED Engine
    \/ \E c \in ConnIds : RouteOther(c) /\ UNCHANGED others

SpecPool == InitPool /\ [][NextPool]_vars

\* C16, as stated: a connection that accept returned while 100 were being
\* served is never served.
C16_RejectedAtArrival ==
    \A c \in ConnIds : conns[c].full => conns[c].h \in {"spawned", "rejected"}

\* C16: at most 100 connections are in handle_connection; the task of a
\* connection is rejected exactly when it asks for a permit while 100 are
\* being served; a rejected connection is closed, no line of it is read,
\* no response line is written to it, and it stays so for ever.
C16_PoolIsBounded ==
    /\ [](/\ Served <= PoolSize
          /\ \A c \in ConnIds :
                conns[c].h = "rejected" =>
                    /\ conns[c].st = "closed" /\ conns[c].s2c = <<>>
                    /\ conns[c].took = <<>> /\ conns[c].wrote = <<>>)
    /\ [][\A c \in ConnIds :
            /\ (conns[c].h = "spawned" /\ conns'[c].h # "spawned") =>
                    (conns'[c].h = "rejected" <=> Served = PoolSize)
            /\ (conns[c].h = "rejected" => conns'[c] = conns[c])]_vars

\* A connection is rejected with a line of its peer unread, a second one
\* is being served, and the pool is full.
C16_Witness ==
    /\ Served = PoolSize
    /\ \E c \in ConnIds : conns[c].h = "rejected" /\ conns[c].c2s # <<>>
    /\ \E c \in ConnIds : conns[c].h = "read"

\* ------------------------------------------------- malformed command lines
\* MemStore::new(persistence.load_all(), Some(persistence)) behind a Router
\* nobody is connected to.
InitBad ==
    \E s \in InitStores :
        /\ dir = Collect([dir |-> DirOf(s, DOMAIN s), ino |-> InodesOf(s, DirOf(s, DOMAIN s))], EmptyMap).dir
        /\ ino = Collect([dir |-> DirOf(s, DOMAIN s), ino |-> InodesOf(s, DirOf(s, DOMAIN s))], EmptyMap).ino
        /\ data = LoadAll(dir, ino)
        /\ pending = 0
        /\ th = [c \in ConnIds |-> Idle(NoCall, Ok(NoVal))]
        /\ tasks = EmptyMap
        /\ opsLeft = MaxLines
        /\ crashed = FALSE
        /\ lastSet = [c \in Coords |-> {}]
        /\ nonWrite = FALSE
        /\ persistence = TRUE
        /\ cl = NoClient
        /\ conns = [c \in ConnIds |-> NoConn]
        /\ others = 0

SpecBad == InitBad /\ [][NextPeer]_vars

\* The verbs of the protocol and the number of words each needs.
Arity ==
    [GET |-> 4, SET |-> 5, DEL |-> 4, MOVE |-> 5, LIST_PERSONAS |-> 1, LIST_APPS |-> 2,
     DUMP |-> 3, DUMP_APP |-> 2, GET_GLOBAL |-> 3, PING |-> 1, QUIT |-> 1]

\* The ERR line a malformed command line is to get (<<>>: the line is
\* blank or well formed).
Malformed(parts) ==
    IF parts = <<>> THEN <<>>
    ELSE IF Command(parts) \notin DOMAIN Arity THEN <<"ERR", Sp, "unknown", Sp, "command">>
    ELSE IF Len(parts) < Arity[Command(parts)] THEN <<"ERR", Sp, "missing", Sp, "arguments">>
    ELSE IF Command(parts) = "SET" /\ ~FromJson(Join(SubSeq(parts, 5, Len(parts)))).ok
         THEN <<"ERR", Sp, "invalid", Sp, "json", Sp, "value">>
    ELSE <<>>

\* C34: when the task of a connection takes a command line with too few
\* arguments for its verb, a SET whose value is not valid JSON, or an
\* unknown verb, it writes exactly one response line, the ERR line of that
\* case, and goes on reading; the hierarchy, the files and the count are
\* unchanged, the store is not called and no persistence task is spawned.
C34_MalformedChangesNothing ==
    [][\A c \in ConnIds :
          (/\ conns[c].c2s # <<>> /\ conns'[c].c2s = Tail(conns[c].c2s)
           /\ Malformed(Parts(c)) # <<>>) =>
              /\ Len(conns'[c].s2c) = Len(conns[c].s2c) + 1
              /\ SubSeq(conns'[c].s2c, 1, Len(conns[c].s2c)) = conns[c].s2c
              /\ conns'[c].s2c[Len(conns'[c].s2c)].line = Malformed(Parts(c))
              /\ conns'[c].h = "read"
              /\ data' = data /\ th' = th /\ tasks' = tasks /\ pending' = pending
              /\ dir' = dir /\ ino' = ino]_vars

\* A SET with a value that is not JSON has its ERR line written while the
\* task of an earlier, well-formed SET is outstanding.
C34_Witness ==
    /\ pending = 1
    /\ \E c \in ConnIds : \E i \in DOMAIN conns[c].s2c :
            conns[c].s2c[i].line = <<"ERR", Sp, "invalid", Sp, "json", Sp, "value">>

\* ------------------------------------------------- the slots of the pool
\* read_line of the task of a raw peer returns an error: handle_connection
\* returns it and the task ends.
PeerBreak(c) ==
    /\ ~crashed /\ conns[c].st = "up" /\ conns[c].h = "read"
    /\ conns' = [conns EXCEPT ![c] = DeadConn]
    /\ UNCHANGED <<cl, others>>

\* Peers that connect and leave by end-of-stream, by QUIT or by a
\* transport error, next to a pool that is full or nearly so.
NextSlots ==
    \/ PeerConnect /\ UNCHANGED Engine
    \/ \E c \in ConnIds : RouterAcquire(c) /\ UNCHANGED Engine
    \/ \E c \in ConnIds : RouterReject(c) /\ UNCHANGED Engine
    \/ OtherArrives /\ UNCHANGED Engine
    \/ OtherLeaves /\ UNCHANGED Engine
    \/ \E c \in ConnIds :
            cl.n < MaxPings /\ PeerWrite(c, [line |-> <<"QUIT">>, call |-> NoCall]) /\ UNCHANGED Engine
    \/ \E c \in ConnIds : PeerClose(c) /\ UNCHANGED Engine
    \/ \E c \in ConnIds : RouterEof(c) /\ UNCHANGED Engine
    \/ \E c \in ConnIds : PeerBreak(c) /\ UNCHANGED Engine
    \/ \E c \in ConnIds : RouteOther(c) /\ UNCHANGED others

SpecSlots == InitPool /\ [][NextSlots]_vars

\* The connections inside handle_connection, the further peers included.
InHandler == others + Cardinality({c \in ConnIds : conns[c].h \in {"read", "exec"}})

\* C33: a served connection that ends (end-of-stream, QUIT, transport
\* error) gives its slot back, a rejected connection takes none, and a
\* connection is rejected only while 100 connections are being served, so
\* that one which arrives after a served connection has ended is served.
C33_SlotsNeverLeak ==
    [][\A c \in ConnIds :
          /\ (conns[c].h \in {"read", "exec"} /\ conns'[c].h = "done") =>
                  Served' = Served - 1
          /\ (conns[c].h = "spawned" /\ conns'[c].h = "rejected") =>
                  (Served' = Served /\ InHandler = PoolSize)
          /\ (conns[c].h = "spawned" /\ InHandler < PoolSize /\ conns'[c].h # "spawned") =>
                  (conns'[c].h = "read" /\ Served' = Served + 1)]_vars

\* The pool was full when the second connection asked, the first has
\* ended by a transport error, and the third, which came later, is served.
C33_Witness ==
    /\ conns[1].h = "done" /\ conns[1].st = "broken"
    /\ conns[2].h = "rejected"
    /\ conns[3].h = "read"
    /\ Served = PoolSize

\* C6: for one call of the Client the Engine starts at most one mutation:
\* a SET, DEL or MOVE is applied once, the retries of send_and_receive
\* included.
C6_AppliedOnce == \A n \in DOMAIN cl.applied : cl.applied[n] <= 1

\* C7: over a transport that holds, every call of the Client returns what
\* the MemStore returns when it is called directly with the same
\* arguments, the kind of the error included.
C7_SameResult == (cl.pc = "idle" /\ cl.n > 0) => cl.res = cl.direct

\* The Client has read (p, a, k) right after a move_key of (a, k) answered OK.
MovedThenRead ==
    /\ cl.pc = "idle" /\ cl.call.op = "get"
    /\ cl.prev.call.op = "move_key" /\ cl.prev.line = <<"OK">>
    /\ cl.call.a = cl.prev.call.a /\ cl.call.k = cl.prev.call.k

\* The source is answered `ERR key not found` (KeyNotFound), the
\* destination `OK <value>` with the value the move took from the source.
ReadsAsMoved ==
    /\ cl.call.p = cl.prev.call.p =>
            (cl.line = <<"ERR", Sp, "key", Sp, "not", Sp, "found">> /\ cl.direct = Err("KeyNotFound"))
    /\ cl.call.p = cl.prev.call.p2 =>
            (cl.line = <<"OK", Sp>> \o ToJson(cl.prev.gv) /\ cl.direct = Ok(cl.prev.gv))

\* C9 as stated: after a successful move_key(src, dst, ns, key), whatever
\* src and dst are, reading (src, ns, key) yields KeyNotFound and reading
\* (dst, ns, key) the value; on the wire `ERR key not found` and `OK <value>`.
C9_MovedThenReadAnyDst == MovedThenRead => ReadsAsMoved

\* C9, amended: after a successful move_key(src, dst, ns, key) with
\* src # dst, reading (src, ns, key) yields KeyNotFound and reading
\* (dst, ns, key) the value the key had under src; on the wire
\* `ERR key not found` and `OK <value>`.
C9_MovedThenRead ==
    (MovedThenRead /\ cl.prev.call.p # cl.prev.call.p2) => ReadsAsMoved

\* MOVE p1 p2 app1 k1 was answered OK, then GET p2 app1 k1 was answered OK "v1".
C9_Witness ==
    /\ MovedThenRead
    /\ cl.prev.call.p = "p1" /\ cl.prev.call.p2 = "p2" /\ cl.call.p = "p2"
    /\ cl.line = <<"OK", Sp, Quote, "v1", Quote>> /\ cl.res = Ok(<<"v1">>)

\* C14: a GET line with its three arguments is answered
\* `ERR persona not found` when the persona is absent, `ERR app not found`
\* when the persona exists and the app is absent in it, and
\* `ERR key not found` when both exist and the key is absent: three
\* pairwise different lines.
C14_MissesStayApart ==
    LET c == cl.call
        hasP == c.p \in DOMAIN data
        hasA == hasP /\ c.a \in DOMAIN data[c.p]
        hasK == hasA /\ c.k \in DOMAIN data[c.p][c.a]
    IN  (cl.pc = "idle" /\ c.op = "get" /\ c.k # "") =>
            /\ (~hasP => cl.line = <<"ERR", Sp, "persona", Sp, "not", Sp, "found">>)
            /\ ((hasP /\ ~hasA) => cl.line = <<"ERR", Sp, "app", Sp, "not", Sp, "found">>)
            /\ ((hasA /\ ~hasK) => cl.line = <<"ERR", Sp, "key", Sp, "not", Sp, "found">>)

\* A GET in a persona without the app was answered `ERR app not found`.
C14_Witness ==
    /\ cl.pc = "idle" /\ cl.call.op = "get" /\ cl.call.k = "k1"
    /\ cl.call.p \in DOMAIN data /\ cl.call.a \notin DOMAIN data[cl.call.p]
    /\ cl.line = <<"ERR", Sp, "app", Sp, "not", Sp, "found">>

\* ------------------------------------------------ the Engine under threads

\* C1: a Global Find that reads while a successful move_key between two
\* different personas has removed the key and not yet inserted it still
\* finds the key (it is never absent from both the source and the
\* destination).
C1_MoveIsAtomic ==
    \A t \in Threads :
        (th[t].pc = "idle" /\ th[t].call.op = "get_global" /\ th[t].seen # {})
            => th[t].res.kind = "Ok"

\* C2: after Writes only, once every persistence task has finished and no
\* call is running, load_all on the data directory yields the hierarchy
\* the Engine holds in memory.
C2_ReloadEqualsMemory ==
    (~nonWrite /\ AllIdleNow /\ pending = 0 /\ DOMAIN tasks = {})
        => LoadAll(dir, ino) = data

\* C4: under any interleaving, the value of the latest Write to each
\* coordinate (latest in the order of the write lock, and not deleted or
\* moved since) is the value the hierarchy holds there.
C4_NoWriteLost ==
    \A c \in Coords :
        lastSet[c] # {} => (Present(data, c[1], c[2], c[3]) /\ data[c[1]][c[2]][c[3]] \in lastSet[c])

\* Two Writes race for one key with different values; one of them won.
C4_Witness ==
    /\ \A t \in Threads : th[t].call.op = "set" /\ th[t].pc = "persist"
    /\ th["t1"].call.p = th["t2"].call.p
    /\ th["t1"].call.v # th["t2"].call.v
    /\ data[th["t2"].call.p]["app1"]["k1"] = th["t2"].call.v

\* C5: when wait() has returned it saw a count of zero, and no persistence
\* task of a mutation that had returned before wait() was called is still
\* alive.
C5_DrainOnShutdown ==
    \A w \in Threads :
        (th[w].pc = "idle" /\ th[w].call.op = "wait")
            => /\ th[w].res.val = <<0>>
               /\ \A id \in DOMAIN tasks : w \notin tasks[id].awaited

\* wait() returned after it was called with tasks of returned mutations alive.
C5_Witness ==
    \E w \in Threads :
        th[w].pc = "idle" /\ th[w].call.op = "wait" /\ Cardinality(th[w].seen) = 2

\* C8: a Read of coordinates whose latest Write has not been followed by a
\* Write, Delete or Move of the same coordinates returns the value written.
C8_WriteReadRoundTrip ==
    \A t \in Threads :
        (th[t].pc = "idle" /\ th[t].call.op = "get" /\ th[t].seen # {})
            => (th[t].res.kind = "Ok" /\ th[t].res.val \in th[t].seen)

\* The Read follows a Write into a persona that did not exist.
C8_Witness ==
    \E t \in Threads :
        /\ th[t].pc = "idle" /\ th[t].call.op = "get" /\ th[t].seen = {<<"v2">>}
        /\ th[t].call.p = "p2" /\ ~("p2" \in DOMAIN LoadAll(dir, ino))

\* The miss move_key reports on d, in the order persona, app, key.
MoveMiss(d, src, a, k) ==
    IF src \notin DOMAIN d THEN "PersonaNotFound"
    ELSE IF a \notin DOMAIN d[src] THEN "AppNotFound"
    ELSE "KeyNotFound"

FailedMove(t) ==
    \E src \in Personas, dst \in Personas, a \in Apps, k \in Keys :
        /\ ~Present(data, src, a, k)
        /\ MoveRemove(t, src, dst, a, k)
        /\ th'[t].res.kind = MoveMiss(data, src, a, k)

AnyMove(t) ==
    \E src \in Personas, dst \in Personas, a \in Apps, k \in Keys :
        ~Present(data, src, a, k) /\ MoveRemove(t, src, dst, a, k)

\* C10: a move_key whose source persona, app or key is absent fails with
\* PersonaNotFound, AppNotFound or KeyNotFound in that order, leaves the
\* whole hierarchy as it was, spawns no persistence task and has no
\* persist() left to call.
C10_FailedMoveChangesNothing ==
    [][\A t \in Threads :
          AnyMove(t) => /\ FailedMove(t)
                        /\ data' = data
                        /\ tasks' = tasks /\ pending' = pending
                        /\ th'[t].pc = "idle" /\ th'[t].todo = <<>>]_vars

\* A move_key out of a persona that holds no such app has failed.
C10_Witness ==
    \E t \in Threads :
        /\ th[t].pc = "idle" /\ th[t].call.op = "move_key"
        /\ th[t].res.kind = "AppNotFound" /\ th[t].call.p \in DOMAIN data

====
